---------------------------- MODULE Spec2Model ----------------------------
(***************************************************************************)
(* Cutting-plane / triangle-mesh intersection core of the transesophageal  *)
(* echo simulator: Vector3, Plane, TriangleIntersection and the            *)
(* RealTimeUpdateService with its result cache; the                        *)
(* SectionVisualizationService; the ModelStore; the ZoomManager; the       *)
(* STLLoaderService with its file validation; the FileSelector; the        *)
(* ModelManager; and the ModelIntegrationService.  Each component has its  *)
(* own specification (Spec, SpecTri, SpecPlane, SpecViz, SpecStore,        *)
(* SpecNotify, SpecZoom, SpecValidate, SpecSelector, SpecManager,          *)
(* SpecLoad and SpecLoadFair) over one set of variables; a specification   *)
(* leaves the variables of the other components at their initial values.   *)
(*                                                                         *)
(* Numbers.  The code computes in IEEE doubles.  The model computes        *)
(* exactly, on two grids:                                                  *)
(*   - lengths (probe position, mesh vertices, signed distances, plane     *)
(*     constant) are integers counting ticks of 5e-11, so the tolerance    *)
(*     1e-10 is 2 ticks and one step of toFixed(4) is 2,000,000 ticks;     *)
(*   - probe direction components are integers counting units of 2^-15     *)
(*     (32768 stands for 1.0), and the directions drawn are parallel to    *)
(*     an axis, so that length() and normalize() are exact.                *)
(* Interpolated points are exact rationals <<numerator, denominator>>.     *)
(* A probe pose component is a JS number [cls, v]: cls is "fin", "nan" or  *)
(* "inf" (v = +1 / -1 for the sign of an infinity).                        *)
(***************************************************************************)
EXTENDS Integers, Sequences, FiniteSets, Bags, TLC

\* ------------------------------------------------------------- bounds
\* Operations performed on one service instance in a behaviour.
MaxOps == 2
\* calculationTime (performance.now() difference) ranges over 0..MaxTime.
MaxTime == 1
\* setCacheSizeLimit is called with a limit in 0..MaxLimit.
MaxLimit == 1

\* ------------------------------------------------- program constants
\* tolerance: number = 1e-10, in ticks of 5e-11.
DefaultTolerance == 2
\* Math.abs(d) < 1e-10 in calculateEdgeIntersection, in ticks.
EdgeTolerance == 2
\* const precision = 4: one unit of the 4th decimal, in ticks.
TicksPerStep == 2000000
\* const precision = 4: steps per whole unit (10^4), for direction components.
StepsPerUnit == 10000
\* Direction components are counted in units of 2^-15 (about 0.00003, less
\* than half a toFixed step): a whole unit is 2^15 of them.
DirPerUnit == 32768

\* ---------------------------------------------------------- numbers
Abs(a) == IF a < 0 THEN -a ELSE a

Sgn(a) == IF a > 0 THEN 1 ELSE IF a < 0 THEN -1 ELSE 0

\* The sign of the product a * b of two distances.  The code tests the
\* product itself (d0 * d1 < 0); its sign is the product of the signs, as
\* distances are 0 or at least one tick, so the product never underflows.
ProdSign(a, b) == Sgn(a) * Sgn(b)

RECURSIVE Gcd(_, _)
Gcd(a, b) == IF b = 0 THEN a ELSE Gcd(b, a % b)

\* The rational n / d (d # 0) in lowest terms with a positive denominator.
Frac(n, d) ==
  LET g == Gcd(Abs(n), Abs(d))
  IN  <<(Sgn(d) * n) \div g, Abs(d) \div g>>

Fin(n) == [cls |-> "fin", v |-> n]
NaN == [cls |-> "nan", v |-> 0]
PosInfinity == [cls |-> "inf", v |-> 1]
NegInfinity == [cls |-> "inf", v |-> -1]

isNaN(c) == c.cls = "nan"
isFinite(c) == c.cls = "fin"

\* The finite values of a pose vector that passed isValidVector.
Values(vector) == <<vector[1].v, vector[2].v, vector[3].v>>

\* ---------------------------------------------------------- Vector3
\* Vector3.length(): Math.sqrt(x * x + y * y + z * z).  The common factor g
\* of the components is taken out before squaring, sqrt(g^2 * s) = g * sqrt(s),
\* so that the squares stay within the integers of the checker.
length(v) ==
  LET g == Gcd(Gcd(Abs(v[1]), Abs(v[2])), Abs(v[3]))
      w == IF g = 0 THEN v ELSE <<v[1] \div g, v[2] \div g, v[3] \div g>>
      s == w[1] * w[1] + w[2] * w[2] + w[3] * w[3]
  IN  g * (CHOOSE r \in 0..s : r * r = s)

\* Vector3.normalize(): the zero vector stays zero.
normalize(v) ==
  LET len == length(v)
  IN  IF len = 0 THEN <<0, 0, 0>>
      ELSE <<v[1] \div len, v[2] \div len, v[3] \div len>>

dot(a, b) == a[1] * b[1] + a[2] * b[2] + a[3] * b[3]

\* Vector3.cross(v)
cross(a, b) ==
  <<a[2] * b[3] - a[3] * b[2], a[3] * b[1] - a[1] * b[3],
    a[1] * b[2] - a[2] * b[1]>>

\* Vector3.subtract(v)
subtract(a, b) == <<a[1] - b[1], a[2] - b[2], a[3] - b[3]>>

\* Vector3.clone() of a mesh vertex, as a point with rational coordinates.
clone(v) == <<Frac(v[1], 1), Frac(v[2], 1), Frac(v[3], 1)>>

\* start + t * (end - start) with t = ds / (ds - de), computed exactly:
\* v0.add(v1.subtract(v0).multiplyScalar(t)).
Lerp(start, end, ds, de) ==
  [i \in 1..3 |->
     Frac(start[i] * (ds - de) + ds * (end[i] - start[i]), ds - de)]

\* ------------------------------------------------------------ Plane
\* A constructed plane, or the thrown Error('法向量不能为零向量').
ZeroNormalMessage == "zero normal"

\* A plausible slip: the constructor without its zero-length check.
PlaneNew_NoCheck(normal, constant) ==
  [threw |-> FALSE, normal |-> normalize(normal), constant |-> constant]

PlaneNew(normal, constant) ==
  IF length(normal) = 0
  THEN [threw |-> TRUE, normal |-> <<0, 0, 0>>, constant |-> 0]
  ELSE [threw |-> FALSE, normal |-> normalize(normal), constant |-> constant]

fromPointAndNormal(point, normal) ==
  LET normalizedNormal == normalize(normal)
      constant == -dot(normalizedNormal, point)
  IN  PlaneNew(normalizedNormal, constant)

\* Plane.fromPoints(point1, point2, point3)
fromPoints(point1, point2, point3) ==
  LET v1 == subtract(point2, point1)
      v2 == subtract(point3, point1)
      normal == normalize(cross(v1, v2))
  IN  fromPointAndNormal(point1, normal)

distanceToPoint(plane, point) == dot(plane.normal, point) + plane.constant


\* ----------------------------------------------- TriangleIntersection
\* The three edges, in the order the code tests them: v0-v1, v1-v2, v2-v0.
Edges == <<<<1, 2>>, <<2, 3>>, <<3, 1>>>>

\* The signed distances d0, d1, d2 of the vertices.
Distances(plane, triangle) ==
  [i \in 1..3 |-> distanceToPoint(plane, triangle[i])]

\* onPlane_i: Math.abs(d_i) < tolerance.
onPlane(d, tolerance) == Abs(d) < tolerance

\* if (onPlane0) push(v0.clone()); if (onPlane1) ...; if (onPlane2) ...
OnPlaneVertices(triangle, d, tolerance) ==
  LET pick(i) == IF onPlane(d[i], tolerance) THEN <<clone(triangle[i])>> ELSE <<>>
  IN  pick(1) \o pick(2) \o pick(3)

\* One edge test: if (di * dj < 0) push(vi + t * (vj - vi)), t = di / (di - dj).
EdgeCrossing(triangle, d, e) ==
  IF ProdSign(d[e[1]], d[e[2]]) < 0
  THEN <<Lerp(triangle[e[1]], triangle[e[2]], d[e[1]], d[e[2]])>>
  ELSE <<>>

\* A plausible slip: the closing edge v2-v0 is not tested.
EdgeCrossings_NoClosingEdge(triangle, d) ==
  EdgeCrossing(triangle, d, Edges[1]) \o EdgeCrossing(triangle, d, Edges[2])

\* The three edge tests in sequence.
EdgeCrossings(triangle, d) ==
  EdgeCrossing(triangle, d, Edges[1])
    \o EdgeCrossing(triangle, d, Edges[2])
    \o EdgeCrossing(triangle, d, Edges[3])

planeTriangleIntersection(plane, triangle, tolerance) ==
  LET d == Distances(plane, triangle)
      onPlaneCount == Cardinality({i \in 1..3 : onPlane(d[i], tolerance)})
      intersections == EdgeCrossings(triangle, d)
  IN  IF onPlaneCount = 3
      THEN <<clone(triangle[1]), clone(triangle[2]), clone(triangle[3])>>
      ELSE IF onPlaneCount = 2
      THEN OnPlaneVertices(triangle, d, tolerance)
      ELSE IF onPlaneCount = 1
      THEN OnPlaneVertices(triangle, d, tolerance) \o EdgeCrossings(triangle, d)
      ELSE IF Len(intersections) = 0 /\ onPlaneCount > 0
      THEN OnPlaneVertices(triangle, d, tolerance)
      ELSE intersections

\* A plausible slip: the third vertex is left out of the side test.
intersectsPlane_TwoVertices(plane, triangle, tolerance) ==
  LET d == Distances(plane, triangle)
      allPositive == d[1] > tolerance /\ d[2] > tolerance
      allNegative == d[1] < -tolerance /\ d[2] < -tolerance
  IN  ~(allPositive \/ allNegative)

\* TriangleIntersection.intersectsPlane
intersectsPlane(plane, triangle, tolerance) ==
  LET d == Distances(plane, triangle)
      allPositive == d[1] > tolerance /\ d[2] > tolerance /\ d[3] > tolerance
      allNegative == d[1] < -tolerance /\ d[2] < -tolerance /\ d[3] < -tolerance
  IN  ~(allPositive \/ allNegative)

\* ---------------------------------------------- RealTimeUpdateService
\* null
Null == <<>>

\* calculateEdgeIntersection: Null, or <<point>>.
calculateEdgeIntersection(plane, start, end) ==
  LET d1 == distanceToPoint(plane, start)
      d2 == distanceToPoint(plane, end)
  IN  IF ProdSign(d1, d2) > 0 THEN Null
      ELSE IF Abs(d1) < EdgeTolerance THEN <<clone(start)>>
      ELSE IF Abs(d2) < EdgeTolerance THEN <<clone(end)>>
      ELSE <<Lerp(start, end, d1, d2)>>

\* calculateTriangleIntersection: Null, or the 2 points of a segment.
calculateTriangleIntersection(plane, triangle) ==
  IF Len(triangle) # 3 THEN Null
  ELSE
    LET d == Distances(plane, triangle)
        hasIntersection ==
          \/ ProdSign(d[1], d[2]) < 0
          \/ ProdSign(d[1], d[3]) < 0
          \/ ProdSign(d[2], d[3]) < 0
        intersectionPoints ==
          calculateEdgeIntersection(plane, triangle[1], triangle[2])
            \o calculateEdgeIntersection(plane, triangle[2], triangle[3])
            \o calculateEdgeIntersection(plane, triangle[3], triangle[1])
    IN  IF ~hasIntersection THEN Null
        ELSE IF Len(intersectionPoints) = 2 THEN intersectionPoints
        ELSE Null

\* A plausible "temporal coherence" slip: once a previous result exists,
\* only the triangles after the first are checked.
optimizeTriangleOrder_SkipFirst(triangles, lastResult) ==
  IF lastResult # Null /\ Len(triangles) > 1 THEN Tail(triangles) ELSE triangles

\* optimizeTriangleOrder: the original order; this.lastResult is in reach of
\* the method and is not read.
optimizeTriangleOrder(triangles, lastResult) == triangles

\* The loop of calculateIntersectionLines over trianglesToCheck.
RECURSIVE CollectLines(_, _)
CollectLines(plane, trianglesToCheck) ==
  IF trianglesToCheck = <<>> THEN <<>>
  ELSE
    LET line == calculateTriangleIntersection(plane, Head(trianglesToCheck))
        rest == CollectLines(plane, Tail(trianglesToCheck))
    IN  IF line # Null /\ Len(line) = 2 THEN <<line>> \o rest ELSE rest

calculateIntersectionLines(plane, triangles, lastResult) ==
  CollectLines(plane, optimizeTriangleOrder(triangles, lastResult))

\* A plausible slip: the isFinite checks are left out.
isValidVector_NaNOnly(vector) ==
  ~isNaN(vector[1]) /\ ~isNaN(vector[2]) /\ ~isNaN(vector[3])

\* isValidVector: no component NaN, every component finite.
isValidVector(vector) ==
  /\ ~isNaN(vector[1]) /\ ~isNaN(vector[2]) /\ ~isNaN(vector[3])
  /\ isFinite(vector[1]) /\ isFinite(vector[2]) /\ isFinite(vector[3])

\* Number.prototype.toFixed(4) of a length in ticks: the sign ("-" for a
\* negative number, whatever it rounds to) and the number of 4th-decimal
\* steps nearest to the magnitude, the larger one on a tie.
toFixedLength(x) ==
  <<IF x < 0 THEN "-" ELSE "", (2 * Abs(x) + TicksPerStep) \div (2 * TicksPerStep)>>

\* toFixed(4) of a direction component in units of 2^-15: the sign and the
\* number of 4th-decimal steps nearest to the magnitude (whole units and
\* the remainder are rounded apart, the whole units being exact).
toFixedDirection(k) ==
  <<IF k < 0 THEN "-" ELSE "",
    (Abs(k) \div DirPerUnit) * StepsPerUnit
      + (2 * (Abs(k) % DirPerUnit) * StepsPerUnit + DirPerUnit) \div (2 * DirPerUnit)>>

\* generateCacheKey: `${positionKey}|${directionKey}|${modelKey}`.
generateCacheKey(probePosition, probeDirection, triangles) ==
  <<<<toFixedLength(probePosition[1]), toFixedLength(probePosition[2]),
      toFixedLength(probePosition[3])>>,
    <<toFixedDirection(probeDirection[1]), toFixedDirection(probeDirection[2]),
      toFixedDirection(probeDirection[3])>>,
    Len(triangles)>>

\* error: '无效的探头位置或方向'
InvalidPoseMessage == "invalid probe position or direction"
\* error: '心脏模型为空'
EmptyModelMessage == "heart model is empty"

\* An IntersectionResult.  fromCache = FALSE and error = "" stand for the
\* optional field being absent.
ErrorResult(message, calculationTime) ==
  [lines |-> <<>>, isValid |-> FALSE, calculationTime |-> calculationTime,
   fromCache |-> FALSE, error |-> message]

\* A plausible slip: an empty result counts as valid.
IsValidLines_AlwaysValid(intersectionLines) == Len(intersectionLines) >= 0

\* isValid: intersectionLines.length > 0
IsValidLines(intersectionLines) == Len(intersectionLines) > 0

\* const result = { lines, isValid, calculationTime }
NewResult(intersectionLines, calculationTime) ==
  [lines |-> intersectionLines, isValid |-> IsValidLines(intersectionLines),
   calculationTime |-> calculationTime, fromCache |-> FALSE, error |-> ""]

\* A plausible slip: the stored calculationTime is returned on a hit.
HitResult_KeepsTime(cachedResult) == [cachedResult EXCEPT !.fromCache = TRUE]

\* { ...cachedResult, fromCache: true, calculationTime: 0 }
HitResult(cachedResult) ==
  [cachedResult EXCEPT !.fromCache = TRUE, !.calculationTime = 0]

\* A plausible slip: the condition is inverted.
ShouldCache_Inverted(result) == ~result.isValid

\* A plausible slip: every computed result is stored.
ShouldCache_Always(result) == TRUE

\* if (result.isValid) this.cache.set(cacheKey, result)
ShouldCache(result) == result.isValid

\* A plausible slip: the misses are divided by the requests.
cacheHitRate_OfMisses(hits, misses) ==
  LET totalRequests == hits + misses
  IN  IF totalRequests > 0 THEN Frac(misses, totalRequests) ELSE Frac(0, 1)

\* getPerformanceStats: totalRequests > 0 ? cacheHits / totalRequests : 0
cacheHitRate(hits, misses) ==
  LET totalRequests == hits + misses
  IN  IF totalRequests > 0 THEN Frac(hits, totalRequests) ELSE Frac(0, 1)

\* ------------------------------------ SectionVisualizationService
\* A string is the sequence of its characters.  An optional field of an
\* options object is Undefined or <<value>>.  Line widths are whole
\* numbers, opacities count hundredths (100 is 1.0); both are JS numbers
\* [cls, v].
Undefined == <<>>

HexDigits ==
  {"0", "1", "2", "3", "4", "5", "6", "7", "8", "9",
   "a", "b", "c", "d", "e", "f", "A", "B", "C", "D", "E", "F"}

\* color: '#00ff00'
DefaultColor == <<"#", "0", "0", "f", "f", "0", "0">>
\* '#ffff00', the default highlight colour
DefaultHighlightColor == <<"#", "f", "f", "f", "f", "0", "0">>
\* lineWidth: 2
DefaultLineWidth == 2
\* opacity: 1.0, and the upper clamp Math.min(1, ...), in hundredths
FullOpacity == 100
\* Math.max(config.lineWidth, 3)
HighlightLineWidth == 3

\* private defaultConfig = {...}
InitialDefaultConfig ==
  [visible |-> TRUE, lineWidth |-> Fin(DefaultLineWidth),
   color |-> DefaultColor, opacity |-> Fin(FullOpacity), highlight |-> FALSE]

\* Math.max / Math.min of two numbers: NaN if either is NaN.
MathMax(a, b) ==
  IF isNaN(a) \/ isNaN(b) THEN NaN ELSE IF a.v >= b.v THEN a ELSE b

MathMin(a, b) ==
  IF isNaN(a) \/ isNaN(b) THEN NaN ELSE IF a.v <= b.v THEN a ELSE b

\* /^#[0-9a-fA-F]{6}$/.test(color)
isValidColor(color) ==
  /\ Len(color) = 7
  /\ color[1] = "#"
  /\ \A i \in 2..7 : color[i] \in HexDigits

\* A plausible slip: the element types are not tested.
isValidLine_LengthOnly(line) == line.isArray /\ Len(line.items) = 2

\* Array.isArray(line) && line.length === 2 &&
\* line[0] instanceof Vector3 && line[1] instanceof Vector3
isValidLine(line) ==
  /\ line.isArray
  /\ Len(line.items) = 2
  /\ line.items[1] = "Vector3"
  /\ line.items[2] = "Vector3"

\* A plausible slip: a highlighted config keeps the colour it had when no
\* valid highlightColor is given.
applyHighlight_KeepsColor(config, options) ==
  IF options.highlight = <<TRUE>>
  THEN [config EXCEPT
          !.highlight = TRUE,
          !.lineWidth = MathMax(config.lineWidth, Fin(HighlightLineWidth)),
          !.color = IF options.highlightColor # Undefined
                       /\ isValidColor(options.highlightColor[1])
                    THEN options.highlightColor[1]
                    ELSE config.color]
  ELSE config

\* if (options.highlight) { ... }
applyHighlight(config, options) ==
  IF options.highlight = <<TRUE>>
  THEN [config EXCEPT
          !.highlight = TRUE,
          !.lineWidth = MathMax(config.lineWidth, Fin(HighlightLineWidth)),
          !.color = IF options.highlightColor # Undefined
                       /\ options.highlightColor[1] # <<>>
                       /\ isValidColor(options.highlightColor[1])
                    THEN options.highlightColor[1]
                    ELSE DefaultHighlightColor]
  ELSE config

\* The custom options applied to the base config, before highlighting.
applyOptions(config, defaultConfig, options) ==
  [config EXCEPT
     !.color = IF options.color # Undefined
               THEN IF isValidColor(options.color[1])
                    THEN options.color[1] ELSE defaultConfig.color
               ELSE @,
     !.lineWidth = IF options.lineWidth # Undefined
                   THEN MathMax(Fin(0), options.lineWidth[1]) ELSE @,
     !.opacity = IF options.opacity # Undefined
                 THEN MathMax(Fin(0), MathMin(Fin(FullOpacity), options.opacity[1]))
                 ELSE @]

\* SectionVisualizationService.getVisualizationConfig
getVisualizationConfig(defaultConfig, intersectionLines, options) ==
  IF intersectionLines.isNull \/ Len(intersectionLines.entries) = 0
  THEN [defaultConfig EXCEPT !.visible = FALSE, !.lineWidth = Fin(0)]
  ELSE LET validLines == SelectSeq(intersectionLines.entries, isValidLine)
       IN  IF Len(validLines) = 0
           THEN [defaultConfig EXCEPT !.visible = FALSE]
           ELSE applyHighlight(
                  applyOptions([defaultConfig EXCEPT !.visible = TRUE],
                               defaultConfig, options),
                  options)

\* {...this.defaultConfig, ...config}: the fields given replace the old ones.
mergeConfig(defaultConfig, config) ==
  [f \in DOMAIN defaultConfig |->
     IF config[f] # Undefined THEN config[f][1] ELSE defaultConfig[f]]

\* ------------------------------------------------------- ModelStore
\* A ModelState is a record; currentModel and error are Null or <<value>>;
\* progress is a JS number, or the JSON value null after a parse.  A model
\* is [iterable]: whether its vertices, normals and faces are arrays (what
\* the spread in getStateSnapshot needs).
NullNumber == [cls |-> "null", v |-> 0]

\* Math.min(100, progress)
FullProgress == 100

\* const INITIAL_STATE
INITIAL_STATE ==
  [isLoading |-> FALSE, currentModel |-> Null, error |-> Null,
   progress |-> Fin(0)]

\* getStateSnapshot(): a deep copy, equal in value; spreading the arrays of
\* a model that has none throws a TypeError.
getStateSnapshot(state) ==
  [threw |-> state.currentModel # Null /\ ~state.currentModel[1].iterable,
   value |-> state]

\* private updateState(newState): assign, push a snapshot, notify every
\* listener with getState().  A throwing snapshot ends the method after the
\* assignment.
updateState(state, listeners, history, newState) ==
  LET snapshot == getStateSnapshot(newState)
  IN  IF snapshot.threw
      THEN [state |-> newState, history |-> history, threw |-> TRUE,
            notified |-> <<>>]
      ELSE [state |-> newState, history |-> Append(history, snapshot.value),
            threw |-> FALSE,
            notified |->
              [i \in 1..Len(listeners) |-> <<listeners[i], snapshot.value>>]]

\* Math.max(0, Math.min(100, progress))
validatedProgress(progress) ==
  MathMax(Fin(0), MathMin(Fin(FullProgress), progress))

\* startLoading(): the state it assigns
startLoadingState ==
  [isLoading |-> TRUE, currentModel |-> Null, error |-> Null, progress |-> Fin(0)]

\* setSuccess(model): the state it assigns
successState(model) ==
  [isLoading |-> FALSE, currentModel |-> <<model>>, error |-> Null,
   progress |-> Fin(FullProgress)]

\* setError(error): the state it assigns
errorState(error) ==
  [isLoading |-> FALSE, currentModel |-> Null, error |-> <<error>>,
   progress |-> Fin(0)]

\* updateProgress(progress): the state it assigns
progressState(state, progress) ==
  [state EXCEPT !.progress = validatedProgress(progress)]

\* this.listeners.indexOf(listener): 0 stands for -1.
indexOf(listeners, listener) ==
  IF \E i \in 1..Len(listeners) : listeners[i] = listener
  THEN CHOOSE i \in 1..Len(listeners) :
         /\ listeners[i] = listener
         /\ \A j \in 1..(i - 1) : listeners[j] # listener
  ELSE 0

\* this.listeners.splice(index, 1)
splice(listeners, index) ==
  [i \in 1..(Len(listeners) - 1) |->
     IF i < index THEN listeners[i] ELSE listeners[i + 1]]

\* The closure returned by the first subscribe call for the listener, as an
\* index into the closures handed out; 0 when there is none.
closureOf(closures, listener) ==
  IF \E k \in DOMAIN closures : closures[k].listener = listener
  THEN CHOOSE k \in DOMAIN closures :
         /\ closures[k].listener = listener
         /\ \A j \in 1..(k - 1) : closures[j].listener # listener
  ELSE 0

\* A listener function being called.  reaction[listener] is what its body
\* does besides recording the state: nothing ("none"), or calling the
\* unsubscribe closure of the named listener (its own, or another's).
callListener(store, reaction, listener) ==
  LET target == IF listener \in DOMAIN reaction THEN reaction[listener] ELSE "none"
      k == closureOf(store.subs, target)
      index == indexOf(store.listeners, target)
  IN  IF target = "none" \/ k = 0 THEN store
      ELSE [store EXCEPT
              !.listeners = IF index > 0 THEN splice(store.listeners, index)
                            ELSE store.listeners,
              !.subs = [store.subs EXCEPT ![k].ran = TRUE]]

\* this.listeners.forEach(listener => listener(this.getState())), from
\* index k on.  Array.prototype.forEach visits the indices below the length
\* the array had at the start, in order, and skips an index the array no
\* longer has when its turn comes.
RECURSIVE forEachListener(_, _, _, _, _)
forEachListener(store, reaction, snapshot, k, len) ==
  IF k > len THEN store
  ELSE IF k > Len(store.listeners)
  THEN forEachListener(store, reaction, snapshot, k + 1, len)
  ELSE LET listener == store.listeners[k]
           called == [store EXCEPT
                        !.notified = Append(store.notified, <<listener, snapshot>>)]
       IN  forEachListener(callListener(called, reaction, listener), reaction,
                           snapshot, k + 1, len)

\* updateState(newState) with listeners that act when they are called:
\* store is [listeners, subs, notified].
notifyListeners(store, reaction, newState) ==
  LET snapshot == getStateSnapshot(newState)
  IN  IF snapshot.threw THEN store
      ELSE forEachListener(store, reaction, snapshot.value, 1, Len(store.listeners))

\* JSON texts are sequences of tokens: "{", the literals of isLoading,
\* currentModel, error and progress in that order, "}".
Numerals == (0 :> "0") @@ (50 :> "50") @@ (100 :> "100") @@ (500 :> "500")

ModelLiteral == "{vertices,normals,faces}"
BareObjectLiteral == "{}"
ErrorLiteral == "\"load failed\""
ErrorMessage == "load failed"

\* JSON.stringify(state); NaN is written as null.
JSONstringify(state) ==
  << "{",
     IF state.isLoading THEN "true" ELSE "false",
     IF state.currentModel = Null THEN "null"
     ELSE IF state.currentModel[1].iterable THEN ModelLiteral
     ELSE BareObjectLiteral,
     IF state.error = Null THEN "null" ELSE ErrorLiteral,
     IF state.progress.cls = "fin" THEN Numerals[state.progress.v] ELSE "null",
     "}" >>

\* A plausible slip: a text that does not parse yields the initial state
\* instead of a SyntaxError.
JSONparse_Lenient(text) == [ok |-> TRUE, value |-> INITIAL_STATE]

\* JSON.parse(text): the value, or a SyntaxError (ok false).
JSONparse(text) ==
  IF /\ Len(text) = 6
     /\ text[1] = "{" /\ text[6] = "}"
     /\ text[2] \in {"true", "false"}
     /\ text[3] \in {"null", ModelLiteral, BareObjectLiteral}
     /\ text[4] \in {"null", ErrorLiteral}
     /\ \/ text[5] = "null"
        \/ \E n \in DOMAIN Numerals : Numerals[n] = text[5]
  THEN [ok |-> TRUE,
        value |->
          [isLoading |-> text[2] = "true",
           currentModel |->
             IF text[3] = "null" THEN Null
             ELSE <<[iterable |-> text[3] = ModelLiteral]>>,
           error |-> IF text[4] = "null" THEN Null ELSE <<ErrorMessage>>,
           progress |->
             IF text[5] = "null" THEN NullNumber
             ELSE Fin(CHOOSE n \in DOMAIN Numerals : Numerals[n] = text[5])]]
  ELSE [ok |-> FALSE, value |-> INITIAL_STATE]

\* --------------------------------------------- File, STLLoaderService
\* Strings whose characters the code inspects (file names, MIME types) are
\* sequences of one-character strings.
UpperLetters ==
  <<"A", "B", "C", "D", "E", "F", "G", "H", "I", "J", "K", "L", "M",
    "N", "O", "P", "Q", "R", "S", "T", "U", "V", "W", "X", "Y", "Z">>
LowerLetters ==
  <<"a", "b", "c", "d", "e", "f", "g", "h", "i", "j", "k", "l", "m",
    "n", "o", "p", "q", "r", "s", "t", "u", "v", "w", "x", "y", "z">>

\* String.prototype.toLowerCase()
toLowerCase(s) ==
  [i \in DOMAIN s |->
     IF \E k \in DOMAIN UpperLetters : UpperLetters[k] = s[i]
     THEN LowerLetters[CHOOSE k \in DOMAIN UpperLetters : UpperLetters[k] = s[i]]
     ELSE s[i]]

\* s.slice(-n): the last n characters, or all of s when it is shorter.
sliceLast(s, n) ==
  SubSeq(s, IF Len(s) > n THEN Len(s) - n + 1 ELSE 1, Len(s))

\* s.includes(t)
includes(s, t) ==
  \E i \in 0..(Len(s) - Len(t)) : SubSeq(s, i + 1, i + Len(t)) = t

\* s.endsWith(t)
endsWith(s, t) ==
  /\ Len(t) <= Len(s)
  /\ SubSeq(s, Len(s) - Len(t) + 1, Len(s)) = t

\* 1024 * 1024 bytes
MB == 1048576

\* maxFileSize = 250 * 1024 * 1024
maxFileSize == 250 * MB

DotStl == <<".", "s", "t", "l">>

\* validTypes
validTypes ==
  { <<"a", "p", "p", "l", "i", "c", "a", "t", "i", "o", "n", "/", "s", "l", "a">>,
    <<"a", "p", "p", "l", "i", "c", "a", "t", "i", "o", "n", "/", "v", "n", "d", ".", "m", "s", "-", "p", "k", "i", ".", "s", "t", "l">>,
    <<"a", "p", "p", "l", "i", "c", "a", "t", "i", "o", "n", "/", "x", "-", "s", "t", "l">>,
    <<"m", "o", "d", "e", "l", "/", "s", "t", "l">>,
    DotStl }

\* validateSTLFile(file)
validateSTLFile(file) ==
  LET fileExtension == sliceLast(toLowerCase(file.name), 4)
      isValidType == \E type \in validTypes :
                       includes(file.type, type) \/ fileExtension = DotStl
  IN  IF ~isValidType THEN FALSE
      ELSE IF file.size > maxFileSize THEN FALSE
      ELSE IF file.size = 0 THEN FALSE
      ELSE TRUE

\* The binary STL header with the triangle count: 84 bytes.
minBufferSize == 84

\* Error messages are sequences of parts, the wrapping prefix first.
\* '无效的STL文件'
InvalidFileMessage == "invalid STL file"
\* '无效的STL文件格式：空数据'
EmptyDataMessage == "invalid STL format: empty data"
\* '无效的STL文件格式：文件大小不足'
TooShortMessage == "invalid STL format: file too short"
\* 'STL文件解析失败: '
ParseFailedPrefix == "STL parse failed: "
\* 'STL文件加载失败: '
LoadFailedPrefix == "STL load failed: "
\* '文件读取错误'
ReadErrorMessage == "file read error"
\* the message of the error STLLoader.parse throws
ParserMessage == "parser error"

\* parseSTLBuffer(buffer), for buffer = [byteLength, content]: a mesh is
\* built unless the buffer is too short or STLLoader.parse throws.
parseSTLBuffer(buffer) ==
  IF buffer.byteLength = 0
  THEN [ok |-> FALSE, error |-> <<EmptyDataMessage>>]
  ELSE IF buffer.byteLength < minBufferSize
  THEN [ok |-> FALSE, error |-> <<TooShortMessage>>]
  ELSE IF buffer.content = "corrupt"
  THEN [ok |-> FALSE, error |-> <<ParseFailedPrefix, ParserMessage>>]
  ELSE [ok |-> TRUE, error |-> <<>>]

\* readFileAsArrayBuffer(file): the FileReader succeeds or fires onerror.
readFileAsArrayBuffer(file) ==
  IF file.content = "unreadable"
  THEN [ok |-> FALSE, error |-> <<ReadErrorMessage>>,
        buffer |-> [byteLength |-> 0, content |-> file.content]]
  ELSE [ok |-> TRUE, error |-> <<>>,
        buffer |-> [byteLength |-> file.size, content |-> file.content]]

\* loadFromFile(file): how its promise settles (ok: with a new mesh).
loadFromFile(file) ==
  IF ~validateSTLFile(file)
  THEN [ok |-> FALSE, error |-> <<InvalidFileMessage>>]
  ELSE LET arrayBuffer == readFileAsArrayBuffer(file)
           parsed == parseSTLBuffer(arrayBuffer.buffer)
       IN  IF ~arrayBuffer.ok
           THEN [ok |-> FALSE, error |-> <<LoadFailedPrefix>> \o arrayBuffer.error]
           ELSE IF ~parsed.ok
           THEN [ok |-> FALSE, error |-> <<LoadFailedPrefix>> \o parsed.error]
           ELSE [ok |-> TRUE, error |-> <<>>]

\* ----------------------------------------------------- ModelManager
\* '模型加载失败: '
ModelLoadFailedPrefix == "model load failed: "

\* A plausible slip: the loaded mesh is not put into the cache.
MapSet_NoOp(map, key, value) == map

\* Map.prototype.set(key, value)
MapSet(map, key, value) == (key :> value) @@ [k \in DOMAIN map \ {key} |-> map[k]]

\* Map.prototype.delete(key), Map.prototype.clear()
MapDelete(map, key) == [k \in DOMAIN map \ {key} |-> map[k]]
EmptyMap == <<>>

\* removeFromCache(mesh): delete the first entry holding the mesh (a mesh is
\* held under one name at most).
removeFromCache(map, mesh) ==
  IF \E n \in DOMAIN map : map[n] = mesh
  THEN MapDelete(map, CHOOSE n \in DOMAIN map : map[n] = mesh)
  ELSE map

\* ------------------------------------------ ModelIntegrationService
\* '文件加载失败: '
FileLoadFailedPrefix == "file load failed: "
\* the message of the TypeError a throwing store method raises
TypeErrorMessage == "not iterable"

\* convertMeshToSTLModel(mesh): the vertices, normals and faces of that
\* mesh, as arrays.
convertMeshToSTLModel(mesh) == [iterable |-> TRUE, mesh |-> mesh]

\* A plausible slip: the message is stored without its prefix.
loadErrorMessage_NoPrefix(errorMessage) == errorMessage

\* `文件加载失败: ${errorMessage}`
loadErrorMessage(errorMessage) == <<FileLoadFailedPrefix>> \o errorMessage

\* One store method called inside loadModelFromFile: updateState(newState)
\* on the store as the calls before it left it.
storeCall(store, storeListeners, newState) ==
  LET r == updateState(store.state, storeListeners, store.history, newState)
  IN  [state |-> r.state, history |-> r.history,
       applied |-> Append(store.applied, newState),
       notified |-> store.notified \o r.notified, threw |-> r.threw]

\* The catch block: setError(`文件加载失败: ${errorMessage}`), then throw error.
\* The error thrown is the caught one, unless setError throws itself.
loadCatch(store, storeListeners, error) ==
  LET s == storeCall(store, storeListeners, errorState(loadErrorMessage(error)))
  IN  [store |-> s, threw |-> TRUE,
       error |-> IF s.threw THEN <<TypeErrorMessage>> ELSE error]

\* The try block after the await, for a loaded mesh: updateProgress(100),
\* convertMeshToSTLModel, setSuccess(stlModel), return mesh.
loadSucceeds(store, storeListeners, mesh) ==
  LET s1 == storeCall(store, storeListeners,
                      progressState(store.state, Fin(FullProgress)))
      s2 == storeCall(s1, storeListeners, successState(convertMeshToSTLModel(mesh)))
  IN  IF s1.threw THEN loadCatch(s1, storeListeners, <<TypeErrorMessage>>)
      ELSE IF s2.threw THEN loadCatch(s2, storeListeners, <<TypeErrorMessage>>)
      ELSE [store |-> s2, threw |-> FALSE, error |-> <<>>]

\* ----------------------------------------------------- FileSelector
\* const maxSize = 250 * 1024 * 1024
maxSize == 250 * MB

\* const confirmationThreshold = 150 * 1024 * 1024
confirmationThreshold == 150 * MB

\* A plausible slip: no confirmation is asked for.
handleFileChange_NoConfirmation(accept, file) ==
  IF accept # <<>> /\ ~endsWith(toLowerCase(file.name), toLowerCase(accept))
  THEN "unsupported type"
  ELSE IF file.size > maxSize THEN "too large"
  ELSE "select"

\* handleFileChange, for the first file of the event: which of its four
\* ways out it takes.
handleFileChange(accept, file) ==
  IF accept # <<>> /\ ~endsWith(toLowerCase(file.name), toLowerCase(accept))
  THEN "unsupported type"
  ELSE IF file.size > maxSize THEN "too large"
  ELSE IF file.size > confirmationThreshold THEN "confirm"
  ELSE "select"

\* ------------------------------------------------------ ZoomManager
\* a <= b on JS numbers: false when either is NaN.
LessEq(a, b) ==
  /\ ~isNaN(a)
  /\ ~isNaN(b)
  /\ \/ a.cls = "inf" /\ a.v = -1
     \/ b.cls = "inf" /\ b.v = 1
     \/ a.cls = "fin" /\ b.cls = "fin" /\ a.v <= b.v

\* value ?? fallback, for an optional value Undefined or <<v>>.
Coalesce(value, fallback) == IF value = Undefined THEN fallback ELSE value[1]

\* reset(): state.value = 50; also the default initial value.
DefaultZoom == 50
DefaultMinZoom == 0
DefaultMaxZoom == 100
DefaultZoomStep == 1

\* Partial<ZoomState> with every field absent; what initialState?.field
\* reads when no initialState is passed.
NoInitialState ==
  [value |-> Undefined, min |-> Undefined, max |-> Undefined, step |-> Undefined]

\* createZoomManager(initialState): the state it starts from.
createZoomManager(initialState) ==
  [value |-> Coalesce(initialState.value, Fin(DefaultZoom)),
   min |-> Coalesce(initialState.min, Fin(DefaultMinZoom)),
   max |-> Coalesce(initialState.max, Fin(DefaultMaxZoom)),
   step |-> Coalesce(initialState.step, Fin(DefaultZoomStep))]

\* isValidZoom(value): value >= state.min && value <= state.max
isValidZoom(zoomState, value) ==
  LessEq(zoomState.min, value) /\ LessEq(value, zoomState.max)

\* ------------------------------------------------------------ state
VARIABLES
  zmState,            \* ZoomManager: the state object of the closure
  zmCall,             \*   the method called last: [op, value]
  zmRet,              \*   Null, or <<r>>: what it returned
  zmOps,              \*   calls made so far
  vfFile,             \* STLLoaderService: the file passed to validateSTLFile
  vfResult,           \*   Null, or <<b>>: what it returned
  accept,             \* FileSelector: its accept prop
  showConfirmation,   \*   state: the confirmation dialog is open
  pendingFile,        \*   state: Null, or <<file>> waiting for the answer
  fsCall,             \*   the handler that ran last: [op, file]
  fsSelected,         \*   the files passed to onFileSelect, in order
  fsErrors,           \*   the onError calls made: <<message, name>>
  fsOps,              \*   events handled so far
  modelCache,         \* ModelManager: its modelCache, name -> mesh
  mmCalls,            \*   the loadModel calls: [file, pc, threw, mesh, error]
  mmLoads,            \*   the names loadFromFile was called for, in order
  mmMeshes,           \*   the meshes the loader built: mesh k is of mmMeshes[k]
  mmDisposed,         \*   the meshes passed to STLLoaderService.dispose
  mmLast,             \*   the step taken last: [op, arg]
  mmOps,              \*   calls made so far
  ldCalls,            \* ModelIntegrationService: its loadModelFromFile calls:
                      \*   [file, pc, threw, mesh, error]
  ldLast,             \*   the step taken last: [op, arg]
  ldOps,              \*   calls made so far
  reaction,           \* ModelStore listeners: what each does when called
  cache,              \* Map<string, IntersectionResult>, as a function
  lastResult,         \* Null, or <<result>>
  cacheHits,
  cacheMisses,
  totalCalculations,
  call,               \* the operation called last, with its arguments
  ret,                \* what that operation returned
  sizeLimit,          \* Null, or <<n>>: the limit passed to setCacheSizeLimit last
  nOps,               \* operations performed so far
  tiPlane,            \* TriangleIntersection: the plane argument
  tiTriangle,         \*   the triangle argument
  tiTolerance,        \*   the tolerance argument
  tiPoints,           \*   the points returned
  tiDone,             \*   whether planeTriangleIntersection has returned
  tiCull,             \*   Null, or <<b>>: what intersectsPlane returned
  plCall,             \* Plane: the constructor or factory called, with arguments
  plResult,           \*   Null, or <<r>>: the plane built or the error thrown
  defaultConfig,      \* SectionVisualizationService: its defaultConfig field
  vzCall,             \*   the method called last, with its arguments
  vzRet,              \*   Null, or <<config>>: the config it returned
  vzOps,              \*   methods called so far
  state,              \* ModelStore: its state field
  listeners,          \*   its listeners array
  history,            \*   its history array
  subs,               \*   the unsubscribe closures handed out, one per
                      \*   subscribe call: [listener, ran]
  stCall,             \*   the method or closure called last: [op, arg]
  stRet,              \*   [threw, value]: how that call ended
  stNotified,         \*   the listener calls it made: <<listener, state>>
  applied,            \*   the states assigned by its operations so far
  stOps               \*   calls made so far

serviceVars ==
  <<cache, lastResult, cacheHits, cacheMisses, totalCalculations, call, ret,
    sizeLimit, nOps>>

triVars == <<tiPlane, tiTriangle, tiTolerance, tiPoints, tiDone, tiCull>>

planeVars == <<plCall, plResult>>

vizVars == <<defaultConfig, vzCall, vzRet, vzOps>>

zoomVars == <<zmState, zmCall, zmRet, zmOps>>

validateVars == <<vfFile, vfResult>>

loadVars == <<ldCalls, ldLast, ldOps>>

notifyVars == <<reaction>>

managerVars ==
  <<modelCache, mmCalls, mmLoads, mmMeshes, mmDisposed, mmLast, mmOps>>

selectorVars ==
  <<accept, showConfirmation, pendingFile, fsCall, fsSelected, fsErrors, fsOps>>

storeVars ==
  <<state, listeners, history, subs, stCall, stRet, stNotified, applied, stOps>>

vars ==
  <<serviceVars, triVars, planeVars, vizVars, storeVars, zoomVars,
    validateVars, selectorVars, managerVars, loadVars, notifyVars>>

\* What each component's operations leave alone: the other components.
outsideService ==
  <<triVars, planeVars, vizVars, storeVars, zoomVars, validateVars,
    selectorVars, managerVars, loadVars, notifyVars>>
outsideTri ==
  <<serviceVars, planeVars, vizVars, storeVars, zoomVars, validateVars,
    selectorVars, managerVars, loadVars, notifyVars>>
outsidePlane ==
  <<serviceVars, triVars, vizVars, storeVars, zoomVars, validateVars,
    selectorVars, managerVars, loadVars, notifyVars>>
outsideViz ==
  <<serviceVars, triVars, planeVars, storeVars, zoomVars, validateVars,
    selectorVars, managerVars, loadVars, notifyVars>>
outsideStore ==
  <<serviceVars, triVars, planeVars, vizVars, zoomVars, validateVars,
    selectorVars, managerVars, loadVars, notifyVars>>
outsideZoom ==
  <<serviceVars, triVars, planeVars, vizVars, storeVars, validateVars,
    selectorVars, managerVars, loadVars, notifyVars>>
outsideValidate ==
  <<serviceVars, triVars, planeVars, vizVars, storeVars, zoomVars,
    selectorVars, managerVars, loadVars, notifyVars>>
outsideSelector ==
  <<serviceVars, triVars, planeVars, vizVars, storeVars, zoomVars,
    validateVars, managerVars, loadVars, notifyVars>>
outsideManager ==
  <<serviceVars, triVars, planeVars, vizVars, storeVars, zoomVars, validateVars,
    selectorVars, loadVars, notifyVars>>
\* The listeners of the ModelStore are called by it and call its closures.
outsideNotify ==
  <<serviceVars, triVars, planeVars, vizVars, zoomVars, validateVars,
    selectorVars, managerVars, loadVars>>
\* The ModelIntegrationService works on the ModelStore.
outsideLoad ==
  <<serviceVars, triVars, planeVars, vizVars, zoomVars, validateVars,
    selectorVars, managerVars, notifyVars>>

\* ----------------------------------------------------------- inputs
\* A triangle over the fixed footprint (0,0), (4,0), (0,4) with the given
\* heights, in ticks.
Tri(z0, z1, z2) == <<<<0, 0, z0>>, <<4, 0, z1>>, <<0, 4, z2>>>>

Vec(x, y, z) == <<Fin(x), Fin(y), Fin(z)>>

\* A direction of whole units.
Dir(x, y, z) == Vec(x * DirPerUnit, y * DirPerUnit, z * DirPerUnit)

\* Probe positions: the origin; one tick above and below it (the same 4th
\* decimal); one toFixed step away along x and along z; and invalid ones.
Positions ==
  { Vec(0, 0, 0), Vec(0, 0, 1), Vec(0, 0, -1), Vec(TicksPerStep, 0, 0),
    <<NaN, Fin(0), Fin(0)>>, <<Fin(0), NegInfinity, Fin(0)>> }

\* Probe directions: along z (unit, doubled, reversed, and 2^-15 long, which
\* toFixed(4) prints as 0.0000), along x, the zero vector, and an invalid one.
Directions ==
  { Dir(0, 0, 1), Dir(0, 0, 2), Dir(0, 0, -1), Vec(0, 0, 1), Dir(1, 0, 0),
    Dir(0, 0, 0), <<Fin(0), Fin(0), PosInfinity>> }

\* The poses drawn: every position with the unit z direction, and every
\* direction at the origin.
Poses ==
  {<<p, Dir(0, 0, 1)>> : p \in Positions}
    \cup {<<Vec(0, 0, 0), d>> : d \in Directions}

\* Meshes: empty; one triangle straddling z = 0 (two of them, with the same
\* triangle count); one triangle above; one with a vertex in the plane and
\* the others on opposite sides; and a mesh of three triangles.
Meshes ==
  { <<>>,
    <<Tri(-3, 3, 3)>>,
    <<Tri(3, -3, 3)>>,
    <<Tri(3, 3, 3)>>,
    <<Tri(0, 3, -3)>>,
    <<Tri(-3, 3, 3), Tri(3, 3, 3), Tri(3, -3, 3)>> }

\* ------------------------------------------------------------- Init
NoCall ==
  [op |-> "new", probePosition |-> Vec(0, 0, 0), probeDirection |-> Vec(0, 0, 0),
   triangles |-> <<>>, limit |-> 0]

InitService ==
  /\ cache = <<>>
  /\ lastResult = Null
  /\ cacheHits = 0
  /\ cacheMisses = 0
  /\ totalCalculations = 0
  /\ call = NoCall
  /\ ret = Null
  /\ sizeLimit = Null
  /\ nOps = 0

IdleTri ==
  /\ tiPlane = Null
  /\ tiTriangle = Null
  /\ tiTolerance = DefaultTolerance
  /\ tiPoints = Null
  /\ tiDone = FALSE
  /\ tiCull = Null

\* No Plane has been constructed.
NoPlaneCall ==
  [op |-> "none", normal |-> <<0, 0, 0>>, constant |-> 0,
   points |-> <<<<0, 0, 0>>, <<0, 0, 0>>, <<0, 0, 0>>>>]

IdlePlane ==
  /\ plCall = NoPlaneCall
  /\ plResult = Null

\* The intersectionLines argument: null, or a list of entries; an entry is
\* an array of items (Vector3 instances or something else) or no array.
LinesArg(entries) == [isNull |-> FALSE, entries |-> entries]
NullLines == [isNull |-> TRUE, entries |-> <<>>]
Line(items) == [isArray |-> TRUE, items |-> items]
NotAnArray == [isArray |-> FALSE, items |-> <<>>]
Segment == Line(<<"Vector3", "Vector3">>)

NoOptions ==
  [color |-> Undefined, lineWidth |-> Undefined, opacity |-> Undefined,
   highlight |-> Undefined, highlightColor |-> Undefined]

NoConfig ==
  [visible |-> Undefined, lineWidth |-> Undefined, color |-> Undefined,
   opacity |-> Undefined, highlight |-> Undefined]

NoVizCall ==
  [op |-> "new", lines |-> NullLines, options |-> NoOptions, config |-> NoConfig]

\* new SectionVisualizationService()
InitViz ==
  /\ defaultConfig = InitialDefaultConfig
  /\ vzCall = NoVizCall
  /\ vzRet = Null
  /\ vzOps = 0

\* A return without a value, and a throw.
Returned(value) == [threw |-> FALSE, value |-> value]
Threw == [threw |-> TRUE, value |-> Null]

\* new ModelStore()
InitStore ==
  /\ state = INITIAL_STATE
  /\ listeners = <<>>
  /\ history = <<getStateSnapshot(INITIAL_STATE).value>>
  /\ subs = <<>>
  /\ stCall = [op |-> "new", arg |-> Null]
  /\ stRet = Returned(Null)
  /\ stNotified = <<>>
  /\ applied = <<>>
  /\ stOps = 0

\* No file is being validated.
IdleValidate ==
  /\ vfFile = [name |-> <<>>, type |-> <<>>, size |-> 0]
  /\ vfResult = Null

NoSelectorCall == [op |-> "render", file |-> Null]

\* A FileSelector with the default accept prop and nothing chosen.
IdleSelector ==
  /\ accept = DotStl
  /\ showConfirmation = FALSE
  /\ pendingFile = Null
  /\ fsCall = NoSelectorCall
  /\ fsSelected = <<>>
  /\ fsErrors = <<>>
  /\ fsOps = 0

\* A new ModelManager: an empty cache and no call made.
IdleManager ==
  /\ modelCache = EmptyMap
  /\ mmCalls = <<>>
  /\ mmLoads = <<>>
  /\ mmMeshes = <<>>
  /\ mmDisposed = {}
  /\ mmLast = [op |-> "new", arg |-> 0]
  /\ mmOps = 0

\* A new ModelIntegrationService: no call made.
IdleLoad ==
  /\ ldCalls = <<>>
  /\ ldLast = [op |-> "new", arg |-> 0]
  /\ ldOps = 0

\* The listeners do nothing but record the state.
IdleNotify == reaction = <<>>

NoZoomCall == [op |-> "createZoomManager", value |-> Fin(0)]

IdleZoom ==
  /\ zmState = createZoomManager(NoInitialState)
  /\ zmCall = NoZoomCall
  /\ zmRet = Null
  /\ zmOps = 0

Init ==
  InitService /\ IdleTri /\ IdlePlane /\ InitViz /\ InitStore /\ IdleZoom
    /\ IdleValidate /\ IdleSelector /\ IdleManager /\ IdleLoad /\ IdleNotify

\* ---------------------------------------------------------- actions
Called(op) == /\ nOps < MaxOps
              /\ nOps' = nOps + 1

\* updateSection(probePosition, probeDirection, heartModel).  The elapsed
\* time is the performance.now() difference the call measures, any value in
\* 0..MaxTime.
UpdateSection(probePosition, probeDirection, triangles) ==
  /\ Called("updateSection")
  /\ call' = [op |-> "updateSection", probePosition |-> probePosition,
              probeDirection |-> probeDirection, triangles |-> triangles,
              limit |-> 0]
  /\ UNCHANGED sizeLimit
  /\ IF ~isValidVector(probePosition) \/ ~isValidVector(probeDirection)
     THEN /\ ret' = ErrorResult(InvalidPoseMessage, 0)
          /\ UNCHANGED <<cache, lastResult, cacheHits, cacheMisses, totalCalculations>>
     ELSE IF Len(triangles) = 0
     THEN /\ ret' = ErrorResult(EmptyModelMessage, 0)
          /\ UNCHANGED <<cache, lastResult, cacheHits, cacheMisses, totalCalculations>>
     ELSE
       \E cacheKey \in {generateCacheKey(Values(probePosition),
                                         Values(probeDirection), triangles)} :
         IF cacheKey \in DOMAIN cache
         THEN /\ cacheHits' = cacheHits + 1
              /\ ret' = HitResult(cache[cacheKey])
              /\ UNCHANGED <<cache, lastResult, cacheMisses, totalCalculations>>
         ELSE
           \E cuttingPlane \in {fromPointAndNormal(Values(probePosition),
                                                   Values(probeDirection))} :
             /\ cacheMisses' = cacheMisses + 1
             /\ IF cuttingPlane.threw
                THEN \* catch (error)
                     \E elapsed \in 0..MaxTime :
                       /\ ret' = ErrorResult(ZeroNormalMessage, elapsed)
                       /\ UNCHANGED <<cache, lastResult, cacheHits, totalCalculations>>
                ELSE
                  \E intersectionLines \in
                       {calculateIntersectionLines(cuttingPlane, triangles, lastResult)} :
                    \E elapsed \in 0..MaxTime :
                      \E result \in {NewResult(intersectionLines, elapsed)} :
                        /\ cache' = IF ShouldCache(result)
                                    THEN (cacheKey :> result) @@ cache
                                    ELSE cache
                        /\ lastResult' = <<result>>
                        /\ totalCalculations' = totalCalculations + 1
                        /\ ret' = result
                        /\ UNCHANGED cacheHits

\* clearCache()
ClearCache ==
  /\ Called("clearCache")
  /\ call' = [NoCall EXCEPT !.op = "clearCache"]
  /\ ret' = Null
  /\ cache' = <<>>
  /\ lastResult' = Null
  /\ cacheHits' = 0
  /\ cacheMisses' = 0
  /\ totalCalculations' = 0
  /\ UNCHANGED sizeLimit

\* getLastResult()
GetLastResult ==
  /\ Called("getLastResult")
  /\ call' = [NoCall EXCEPT !.op = "getLastResult"]
  /\ ret' = lastResult
  /\ UNCHANGED <<cache, lastResult, cacheHits, cacheMisses, totalCalculations, sizeLimit>>

\* getPerformanceStats()
GetPerformanceStats ==
  /\ Called("getPerformanceStats")
  /\ call' = [NoCall EXCEPT !.op = "getPerformanceStats"]
  /\ ret' = [cacheHitRate |-> cacheHitRate(cacheHits, cacheMisses),
             totalCalculations |-> totalCalculations,
             cacheHits |-> cacheHits, cacheMisses |-> cacheMisses]
  /\ UNCHANGED <<cache, lastResult, cacheHits, cacheMisses, totalCalculations, sizeLimit>>

\* setCacheSizeLimit(limit): clearCache() when the cache is larger now.
SetCacheSizeLimit(limit) ==
  /\ Called("setCacheSizeLimit")
  /\ call' = [NoCall EXCEPT !.op = "setCacheSizeLimit", !.limit = limit]
  /\ ret' = Null
  /\ sizeLimit' = <<limit>>
  /\ IF Cardinality(DOMAIN cache) > limit
     THEN /\ cache' = <<>>
          /\ lastResult' = Null
          /\ cacheHits' = 0
          /\ cacheMisses' = 0
          /\ totalCalculations' = 0
     ELSE UNCHANGED <<cache, lastResult, cacheHits, cacheMisses, totalCalculations>>

Next ==
  \/ /\ \E pose \in Poses, triangles \in Meshes :
          UpdateSection(pose[1], pose[2], triangles)
     /\ UNCHANGED outsideService
  \/ ClearCache /\ UNCHANGED outsideService
  \/ GetLastResult /\ UNCHANGED outsideService
  \/ GetPerformanceStats /\ UNCHANGED outsideService
  \/ (\E limit \in 0..MaxLimit : SetCacheSizeLimit(limit)) /\ UNCHANGED outsideService

Spec == Init /\ [][Next]_vars

\* ------------------------------------ TriangleIntersection, applied
\* Heights of the triangle's vertices, in ticks: below, inside and above
\* the tolerance band of the plane z = 0.
Heights == {-3, -1, 0, 1, 3}

\* Plane constants drawn, in ticks.
MaxConstant == 1

\* new Plane(normal, constant) for normals along z, up or down, of length 1
\* or 2, and constants that shift the heights onto and across the edge of
\* the tolerance band.
TriPlanes ==
  {PlaneNew(<<0, 0, k>>, c) : k \in {1, -1, 2}, c \in -MaxConstant..MaxConstant}

TriTriangles == {Tri(z0, z1, z2) : z0 \in Heights, z1 \in Heights, z2 \in Heights}

\* Tolerances passed: below zero, zero, the default, and a wider band.
TriTolerances == {-DefaultTolerance, 0, DefaultTolerance, DefaultTolerance + 1}

InitTri ==
  /\ tiPlane \in TriPlanes
  /\ tiTriangle \in TriTriangles
  /\ tiTolerance \in TriTolerances
  /\ tiPoints = Null
  /\ tiDone = FALSE
  /\ tiCull = Null

\* TriangleIntersection.planeTriangleIntersection(plane, triangle)
PlaneTriangleIntersection ==
  /\ ~tiDone
  /\ tiPoints' = planeTriangleIntersection(tiPlane, tiTriangle, tiTolerance)
  /\ tiDone' = TRUE
  /\ UNCHANGED <<tiPlane, tiTriangle, tiTolerance, tiCull>>

\* TriangleIntersection.intersectsPlane(plane, triangle, tolerance)
IntersectsPlane ==
  /\ tiCull = Null
  /\ tiCull' = <<intersectsPlane(tiPlane, tiTriangle, tiTolerance)>>
  /\ UNCHANGED <<tiPlane, tiTriangle, tiTolerance, tiPoints, tiDone>>

NextTri ==
  \/ PlaneTriangleIntersection /\ UNCHANGED outsideTri
  \/ IntersectsPlane /\ UNCHANGED outsideTri

InitTriSpec ==
  InitService /\ InitTri /\ IdlePlane /\ InitViz /\ InitStore /\ IdleZoom
    /\ IdleValidate /\ IdleSelector /\ IdleManager /\ IdleLoad /\ IdleNotify

SpecTri == InitTriSpec /\ [][NextTri]_vars

\* ------------------------------------- Plane construction in isolation
\* Largest coordinate of the points handed to the factories.
MaxCoord == 2

\* Points of the plane z = 0, so that every cross product is along z.
PlanePoints == {<<x, y, 0>> : x \in 0..MaxCoord, y \in 0..MaxCoord}

\* Normals handed to the constructor: zero, unit, and longer ones.
PlaneNormals == {<<0, 0, 0>>, <<0, 0, 1>>, <<0, 0, -2>>, <<3, 0, 0>>, <<0, 1, 0>>}

PlaneCalls ==
  {[op |-> "new", normal |-> n, constant |-> c,
    points |-> NoPlaneCall.points] :
      n \in PlaneNormals, c \in -MaxConstant..MaxConstant}
  \cup
  {[op |-> "fromPointAndNormal", normal |-> n, constant |-> 0,
    points |-> <<p, <<0, 0, 0>>, <<0, 0, 0>>>>] :
      n \in PlaneNormals, p \in PlanePoints}
  \cup
  {[op |-> "fromPoints", normal |-> <<0, 0, 0>>, constant |-> 0,
    points |-> <<p1, p2, p3>>] :
      p1 \in PlanePoints, p2 \in PlanePoints, p3 \in PlanePoints}

InitPlane ==
  /\ plCall \in PlaneCalls
  /\ plResult = Null

\* new Plane(normal, constant)
NewPlane ==
  /\ plResult = Null
  /\ plCall.op = "new"
  /\ plResult' = <<PlaneNew(plCall.normal, plCall.constant)>>
  /\ UNCHANGED plCall

\* Plane.fromPointAndNormal(point, normal)
FromPointAndNormal ==
  /\ plResult = Null
  /\ plCall.op = "fromPointAndNormal"
  /\ plResult' = <<fromPointAndNormal(plCall.points[1], plCall.normal)>>
  /\ UNCHANGED plCall

\* Plane.fromPoints(point1, point2, point3)
FromPoints ==
  /\ plResult = Null
  /\ plCall.op = "fromPoints"
  /\ plResult' =
       <<fromPoints(plCall.points[1], plCall.points[2], plCall.points[3])>>
  /\ UNCHANGED plCall

NextPlane ==
  \/ NewPlane /\ UNCHANGED outsidePlane
  \/ FromPointAndNormal /\ UNCHANGED outsidePlane
  \/ FromPoints /\ UNCHANGED outsidePlane

InitPlaneSpec ==
  InitService /\ IdleTri /\ InitPlane /\ InitViz /\ InitStore /\ IdleZoom
    /\ IdleValidate /\ IdleSelector /\ IdleManager /\ IdleLoad /\ IdleNotify

SpecPlane == InitPlaneSpec /\ [][NextPlane]_vars

\* ---------------------------------------- SectionVisualizationService
\* Methods called on one service instance in a behaviour.
MaxVizOps == 2

\* Colours passed: valid in lower and in mixed case, a colour name, a
\* 3-digit colour, a 6-character one with a non-hex digit, the empty string.
Red == <<"#", "f", "f", "0", "0", "0", "0">>
MixedCase == <<"#", "F", "F", "0", "0", "a", "A">>
ColourName == <<"r", "e", "d">>
ShortHex == <<"#", "f", "f", "f">>
NotHex == <<"#", "g", "g", "0", "0", "0", "0">>
EmptyString == <<>>

LinesArgs ==
  { NullLines, LinesArg(<<>>), LinesArg(<<Segment>>),
    LinesArg(<<Line(<<"Vector3">>)>>),
    LinesArg(<<Line(<<"Vector3">>), Segment>>),
    LinesArg(<<Line(<<"Vector3", "Vector3", "Vector3">>), NotAnArray>>),
    LinesArg(<<Line(<<"Vector3", "number">>)>>) }

\* The options passed: colour options with and without highlighting, and
\* numeric options with and without highlighting.
ColourOptions ==
  {[NoOptions EXCEPT !.color = c, !.highlight = h, !.highlightColor = hc] :
     c \in {Undefined, <<Red>>, <<ColourName>>, <<NotHex>>},
     h \in {Undefined, <<TRUE>>, <<FALSE>>},
     hc \in {Undefined, <<MixedCase>>, <<ShortHex>>, <<EmptyString>>}}

NumericOptions ==
  {[NoOptions EXCEPT !.lineWidth = w, !.opacity = o, !.highlight = h] :
     w \in {Undefined, <<Fin(-1)>>, <<Fin(1)>>, <<Fin(5)>>, <<NaN>>},
     o \in {Undefined, <<Fin(-50)>>, <<Fin(50)>>, <<Fin(150)>>, <<NaN>>},
     h \in {Undefined, <<TRUE>>}}

OptionsArgs == ColourOptions \cup NumericOptions

\* The partial configs passed to setDefaultConfig.
ConfigArgs ==
  { NoConfig,
    [NoConfig EXCEPT !.lineWidth = <<Fin(5)>>, !.color = <<Red>>],
    [NoConfig EXCEPT !.visible = <<FALSE>>, !.highlight = <<TRUE>>],
    [NoConfig EXCEPT !.lineWidth = <<Fin(-1)>>],
    [NoConfig EXCEPT !.opacity = <<Fin(150)>>],
    [NoConfig EXCEPT !.color = <<ColourName>>] }

VizCalled == vzOps < MaxVizOps /\ vzOps' = vzOps + 1

GetVisualizationConfig(intersectionLines, options) ==
  /\ VizCalled
  /\ vzCall' = [op |-> "getVisualizationConfig", lines |-> intersectionLines,
                options |-> options, config |-> NoConfig]
  /\ vzRet' = <<getVisualizationConfig(defaultConfig, intersectionLines, options)>>
  /\ UNCHANGED defaultConfig

GetDefaultConfig ==
  /\ VizCalled
  /\ vzCall' = [NoVizCall EXCEPT !.op = "getDefaultConfig"]
  /\ vzRet' = <<defaultConfig>>
  /\ UNCHANGED defaultConfig

SetDefaultConfig(config) ==
  /\ VizCalled
  /\ vzCall' = [NoVizCall EXCEPT !.op = "setDefaultConfig", !.config = config]
  /\ defaultConfig' = mergeConfig(defaultConfig, config)
  /\ vzRet' = Null

NextViz ==
  \/ (\E intersectionLines \in LinesArgs, options \in OptionsArgs :
        GetVisualizationConfig(intersectionLines, options))
     /\ UNCHANGED outsideViz
  \/ GetDefaultConfig /\ UNCHANGED outsideViz
  \/ (\E config \in ConfigArgs : SetDefaultConfig(config))
     /\ UNCHANGED outsideViz

InitVizSpec ==
  InitService /\ IdleTri /\ IdlePlane /\ InitViz /\ InitStore /\ IdleZoom
    /\ IdleValidate /\ IdleSelector /\ IdleManager /\ IdleLoad /\ IdleNotify

SpecViz == InitVizSpec /\ [][NextViz]_vars

\* ----------------------------------------------------------- ModelStore
\* Calls made on one store (and its unsubscribe closures) in a behaviour.
MaxStoreOps == 4

\* The listener functions subscribed.
StoreListeners == {"listener1", "listener2"}

\* The model passed to setSuccess: a typed STLModel, with its arrays.
StoreModels == {[iterable |-> TRUE]}

\* Progress values passed: below, inside and above the range, and NaN.
ProgressArgs == {Fin(-10), Fin(50), Fin(150), NaN}

\* Texts passed to deserialize: not JSON (free text, the empty string, a
\* truncated object), and serialised states: one in range, one with
\* progress 500, one with progress null, one whose model has no arrays.
InvalidTexts == {<<"invalid json data">>, <<>>, <<"{", "true">>}

ValidTexts ==
  { <<"{", "true", "null", "null", "50", "}">>,
    <<"{", "false", "null", "null", "500", "}">>,
    <<"{", "true", "null", "null", "null", "}">>,
    <<"{", "false", BareObjectLiteral, "null", "100", "}">> }

StoreCalled(op, arg) ==
  /\ stOps < MaxStoreOps
  /\ stOps' = stOps + 1
  /\ stCall' = [op |-> op, arg |-> arg]

\* The common tail of the state-changing methods: updateState(newState),
\* whose exception reaches the caller.
Update(newState) ==
  \E r \in {updateState(state, listeners, history, newState)} :
    /\ state' = r.state
    /\ history' = r.history
    /\ stNotified' = r.notified
    /\ stRet' = IF r.threw THEN Threw ELSE Returned(Null)
    /\ applied' = Append(applied, newState)
    /\ UNCHANGED <<listeners, subs>>

StartLoading ==
  /\ StoreCalled("startLoading", Null)
  /\ Update(startLoadingState)

SetSuccess(model) ==
  /\ StoreCalled("setSuccess", model)
  /\ Update(successState(model))

SetError(error) ==
  /\ StoreCalled("setError", error)
  /\ Update(errorState(error))

UpdateProgress(progress) ==
  /\ StoreCalled("updateProgress", progress)
  /\ Update(progressState(state, progress))

Reset ==
  /\ StoreCalled("reset", Null)
  /\ Update(INITIAL_STATE)

\* subscribe(listener): push, call the listener with getState(), return the
\* closure.  When getState() throws, the listener stays pushed and no
\* closure is returned.
Subscribe(listener) ==
  /\ StoreCalled("subscribe", listener)
  /\ listeners' = Append(listeners, listener)
  /\ \E snapshot \in {getStateSnapshot(state)} :
       IF snapshot.threw
       THEN /\ stNotified' = <<>>
            /\ stRet' = Threw
            /\ UNCHANGED subs
       ELSE /\ stNotified' = <<<<listener, snapshot.value>>>>
            /\ stRet' = Returned(Len(subs) + 1)
            /\ subs' = Append(subs, [listener |-> listener, ran |-> FALSE])
  /\ UNCHANGED <<state, history, applied>>

\* The closure returned by the k-th subscribe call.
Unsubscribe(k) ==
  /\ StoreCalled("unsubscribe", k)
  /\ \E index \in {indexOf(listeners, subs[k].listener)} :
       listeners' = IF index > 0 THEN splice(listeners, index) ELSE listeners
  /\ subs' = [subs EXCEPT ![k].ran = TRUE]
  /\ stNotified' = <<>>
  /\ stRet' = Returned(Null)
  /\ UNCHANGED <<state, history, applied>>

GetState ==
  /\ StoreCalled("getState", Null)
  /\ \E snapshot \in {getStateSnapshot(state)} :
       stRet' = IF snapshot.threw THEN Threw ELSE Returned(snapshot.value)
  /\ stNotified' = <<>>
  /\ UNCHANGED <<state, listeners, history, subs, applied>>

GetHistory ==
  /\ StoreCalled("getHistory", Null)
  /\ stRet' = Returned(history)
  /\ stNotified' = <<>>
  /\ UNCHANGED <<state, listeners, history, subs, applied>>

Serialize ==
  /\ StoreCalled("serialize", Null)
  /\ stRet' = Returned(JSONstringify(state))
  /\ stNotified' = <<>>
  /\ UNCHANGED <<state, listeners, history, subs, applied>>

\* deserialize(serialized): a SyntaxError of JSON.parse and an exception of
\* updateState are both caught and logged.
Deserialize(serialized) ==
  /\ StoreCalled("deserialize", serialized)
  /\ \E parsed \in {JSONparse(serialized)} :
       IF parsed.ok
       THEN \E r \in {updateState(state, listeners, history, parsed.value)} :
              /\ state' = r.state
              /\ history' = r.history
              /\ stNotified' = r.notified
              /\ applied' = Append(applied, parsed.value)
       ELSE /\ stNotified' = <<>>
            /\ UNCHANGED <<state, history, applied>>
  /\ stRet' = Returned(Null)
  /\ UNCHANGED <<listeners, subs>>

NextStore ==
  \/ StartLoading /\ UNCHANGED outsideStore
  \/ (\E model \in StoreModels : SetSuccess(model)) /\ UNCHANGED outsideStore
  \/ SetError(ErrorMessage) /\ UNCHANGED outsideStore
  \/ (\E progress \in ProgressArgs : UpdateProgress(progress))
     /\ UNCHANGED outsideStore
  \/ Reset /\ UNCHANGED outsideStore
  \/ (\E listener \in StoreListeners : Subscribe(listener))
     /\ UNCHANGED outsideStore
  \/ (\E k \in 1..Len(subs) : Unsubscribe(k)) /\ UNCHANGED outsideStore
  \/ GetState /\ UNCHANGED outsideStore
  \/ GetHistory /\ UNCHANGED outsideStore
  \/ Serialize /\ UNCHANGED outsideStore
  \/ (\E serialized \in InvalidTexts \cup ValidTexts : Deserialize(serialized))
     /\ UNCHANGED outsideStore

InitStoreSpec ==
  InitService /\ IdleTri /\ IdlePlane /\ InitViz /\ InitStore /\ IdleZoom
    /\ IdleValidate /\ IdleSelector /\ IdleManager /\ IdleLoad /\ IdleNotify

SpecStore == InitStoreSpec /\ [][NextStore]_vars

\* --------------------------------------------- ZoomManager, applied
\* Calls made on one zoom manager in a behaviour.
MaxZoomOps == 3

\* The initialState arguments drawn: none; a custom range that contains 50
\* (the one of the tests); custom ranges that do not; a range of one value;
\* and an initial value together with a range.
InitialStates ==
  { NoInitialState,
    [NoInitialState EXCEPT !.min = <<Fin(10)>>, !.max = <<Fin(90)>>],
    [NoInitialState EXCEPT !.min = <<Fin(60)>>, !.max = <<Fin(90)>>],
    [NoInitialState EXCEPT !.min = <<Fin(0)>>, !.max = <<Fin(40)>>],
    [NoInitialState EXCEPT !.min = <<Fin(70)>>, !.max = <<Fin(70)>>],
    [NoInitialState EXCEPT !.value = <<Fin(70)>>, !.min = <<Fin(60)>>,
                           !.max = <<Fin(90)>>] }

\* The values passed to setZoom.
ZoomArgs == {Fin(-1), Fin(0), Fin(50), Fin(70), Fin(75), Fin(100), Fin(150), NaN}

InitZoom ==
  /\ \E initialState \in InitialStates : zmState = createZoomManager(initialState)
  /\ zmCall = NoZoomCall
  /\ zmRet = Null
  /\ zmOps = 0

ZoomCalled(op, value) ==
  /\ zmOps < MaxZoomOps
  /\ zmOps' = zmOps + 1
  /\ zmCall' = [op |-> op, value |-> value]

\* getState(): { ...state }
ZoomGetState ==
  /\ ZoomCalled("getState", Fin(0))
  /\ zmRet' = <<zmState>>
  /\ UNCHANGED zmState

\* setZoom(value)
SetZoom(value) ==
  /\ ZoomCalled("setZoom", value)
  /\ zmRet' = Null
  /\ zmState' = IF isValidZoom(zmState, value)
                THEN [zmState EXCEPT !.value = value]
                ELSE zmState

\* reset()
ZoomReset ==
  /\ ZoomCalled("reset", Fin(0))
  /\ zmRet' = Null
  /\ zmState' = [zmState EXCEPT !.value = Fin(DefaultZoom)]

\* isValidZoom(value), called from outside
IsValidZoom(value) ==
  /\ ZoomCalled("isValidZoom", value)
  /\ zmRet' = <<isValidZoom(zmState, value)>>
  /\ UNCHANGED zmState

NextZoom ==
  \/ ZoomGetState /\ UNCHANGED outsideZoom
  \/ (\E value \in ZoomArgs : SetZoom(value)) /\ UNCHANGED outsideZoom
  \/ ZoomReset /\ UNCHANGED outsideZoom
  \/ (\E value \in ZoomArgs : IsValidZoom(value)) /\ UNCHANGED outsideZoom

InitZoomSpec ==
  InitService /\ IdleTri /\ IdlePlane /\ InitViz /\ InitStore /\ InitZoom
    /\ IdleValidate /\ IdleSelector /\ IdleManager /\ IdleLoad /\ IdleNotify

SpecZoom == InitZoomSpec /\ [][NextZoom]_vars

\* ------------------------------------------ validateSTLFile, applied
\* File names: lower and upper case .stl, another extension, .stl inside
\* the name only, and a name shorter than the extension.
FileNames ==
  { <<"h", "e", "a", "r", "t", ".", "s", "t", "l">>,
    <<"L", "A", "R", "G", "E", ".", "S", "T", "L">>,
    <<"t", "e", "s", "t", ".", "t", "x", "t">>,
    <<"a", ".", "s", "t", "l", ".", "o", "b", "j">>,
    <<"s", "t", "l">> }

\* MIME types: two of the listed ones, none, and two others.
FileTypes ==
  { <<"a", "p", "p", "l", "i", "c", "a", "t", "i", "o", "n", "/", "s", "l", "a">>,
    <<"m", "o", "d", "e", "l", "/", "s", "t", "l">>,
    <<>>,
    <<"t", "e", "x", "t", "/", "p", "l", "a", "i", "n">>,
    <<"a", "p", "p", "l", "i", "c", "a", "t", "i", "o", "n", "/", "o", "c", "t", "e", "t", "-", "s", "t", "r", "e", "a", "m">> }

\* File sizes in bytes: empty, tiny, around the binary STL header, 100 MB
\* and 101 MB (those of the tests), around 150 MB, around the limit, and
\* 300 MB.
FileSizes ==
  { 0, 1, 83, 84, 100 * MB, 101 * MB, 150 * MB, 150 * MB + 1,
    250 * MB, 250 * MB + 1, 300 * MB }

Files ==
  { [name |-> name, type |-> type, size |-> size] :
      name \in FileNames, type \in FileTypes, size \in FileSizes }

InitValidate ==
  /\ vfFile \in Files
  /\ vfResult = Null

\* validateSTLFile(vfFile)
ValidateSTLFile ==
  /\ vfResult = Null
  /\ vfResult' = <<validateSTLFile(vfFile)>>
  /\ UNCHANGED vfFile

NextValidate == ValidateSTLFile /\ UNCHANGED outsideValidate

InitValidateSpec ==
  InitService /\ IdleTri /\ IdlePlane /\ InitViz /\ InitStore /\ IdleZoom
    /\ InitValidate /\ IdleSelector /\ IdleManager /\ IdleLoad /\ IdleNotify

SpecValidate == InitValidateSpec /\ [][NextValidate]_vars

\* -------------------------------------------- FileSelector, applied
\* Events handled by one FileSelector in a behaviour.
MaxSelectorOps == 3

\* The accept prop: the default, upper case, and empty (no type check).
AcceptProps == {DotStl, <<".", "S", "T", "L">>, <<>>}

\* The files chosen: with and without the extension, below and above the
\* confirmation threshold and the maximum.
SelectorFiles ==
  { [name |-> name, type |-> <<>>, size |-> size] :
      name \in {<<"h", "e", "a", "r", "t", ".", "s", "t", "l">>, <<"L", "A", "R", "G", "E", ".", "S", "T", "L">>, <<"t", "e", "s", "t", ".", "t", "x", "t">>},
      size \in {100 * MB, 150 * MB, 150 * MB + 1, 250 * MB, 250 * MB + 1} }

InitSelector ==
  /\ accept \in AcceptProps
  /\ showConfirmation = FALSE
  /\ pendingFile = Null
  /\ fsCall = NoSelectorCall
  /\ fsSelected = <<>>
  /\ fsErrors = <<>>
  /\ fsOps = 0

SelectorCalled(op, file) ==
  /\ fsOps < MaxSelectorOps
  /\ fsOps' = fsOps + 1
  /\ fsCall' = [op |-> op, file |-> file]
  /\ UNCHANGED accept

\* handleFileChange(event) with files[0] = file
HandleFileChange(file) ==
  /\ SelectorCalled("handleFileChange", <<file>>)
  /\ \E way \in {handleFileChange(accept, file)} :
       /\ fsErrors' = IF way \in {"unsupported type", "too large"}
                      THEN Append(fsErrors, <<way, file.name>>)
                      ELSE fsErrors
       /\ pendingFile' = IF way = "confirm" THEN <<file>> ELSE pendingFile
       /\ showConfirmation' = IF way = "confirm" THEN TRUE ELSE showConfirmation
       /\ fsSelected' = IF way = "select" THEN Append(fsSelected, file)
                        ELSE fsSelected

\* handleFileChange(event) without files
HandleNoFile ==
  /\ SelectorCalled("handleFileChange", Null)
  /\ UNCHANGED <<showConfirmation, pendingFile, fsSelected, fsErrors>>

\* handleConfirmation(): the confirm button of the open dialog
HandleConfirmation ==
  /\ showConfirmation
  /\ SelectorCalled("handleConfirmation", Null)
  /\ fsSelected' = IF pendingFile # Null THEN Append(fsSelected, pendingFile[1])
                   ELSE fsSelected
  /\ showConfirmation' = FALSE
  /\ pendingFile' = Null
  /\ UNCHANGED fsErrors

\* handleCancel(): the cancel button of the open dialog
HandleCancel ==
  /\ showConfirmation
  /\ SelectorCalled("handleCancel", Null)
  /\ showConfirmation' = FALSE
  /\ pendingFile' = Null
  /\ UNCHANGED <<fsSelected, fsErrors>>

NextSelector ==
  \/ (\E file \in SelectorFiles : HandleFileChange(file)) /\ UNCHANGED outsideSelector
  \/ HandleNoFile /\ UNCHANGED outsideSelector
  \/ HandleConfirmation /\ UNCHANGED outsideSelector
  \/ HandleCancel /\ UNCHANGED outsideSelector

InitSelectorSpec ==
  InitService /\ IdleTri /\ IdlePlane /\ InitViz /\ InitStore /\ IdleZoom
    /\ IdleValidate /\ InitSelector /\ IdleManager /\ IdleLoad /\ IdleNotify

SpecSelector == InitSelectorSpec /\ [][NextSelector]_vars

\* -------------------------------------------- ModelManager, applied
\* Calls made on one manager in a behaviour (loadModel, clearCache,
\* disposeModel); the completion of a load is not a call.
MaxManagerOps == 3

HeartStl == <<"h", "e", "a", "r", "t", ".", "s", "t", "l">>
LargeStl == <<"L", "A", "R", "G", "E", ".", "S", "T", "L">>

StlFile(name, size, content) ==
  [name |-> name, type |-> <<"a", "p", "p", "l", "i", "c", "a", "t", "i", "o", "n", "/", "s", "l", "a">>, size |-> size, content |-> content]

\* The files loaded: a good one; files of the same name that are empty,
\* over the limit, shorter than the header, corrupt and unreadable; and a
\* good one of another name.
ManagerFiles ==
  { StlFile(HeartStl, minBufferSize, "stl"),
    StlFile(HeartStl, 0, "stl"),
    StlFile(HeartStl, 300 * MB, "stl"),
    StlFile(HeartStl, minBufferSize - 1, "stl"),
    StlFile(HeartStl, 100 * MB, "corrupt"),
    StlFile(HeartStl, minBufferSize, "unreadable"),
    StlFile(LargeStl, minBufferSize, "stl") }

ManagerCalled(op, arg) ==
  /\ mmOps < MaxManagerOps
  /\ mmOps' = mmOps + 1
  /\ mmLast' = [op |-> op, arg |-> arg]

Fulfilled(file, mesh) ==
  [file |-> file, pc |-> "done", threw |-> FALSE, mesh |-> mesh, error |-> <<>>]

Rejected(file, error) ==
  [file |-> file, pc |-> "done", threw |-> TRUE, mesh |-> 0, error |-> error]

Awaiting(file) ==
  [file |-> file, pc |-> "awaiting", threw |-> FALSE, mesh |-> 0, error |-> <<>>]

\* loadModel(file) up to its await: validation, the cache lookup, and the
\* call of loadFromFile.
LoadModel(file) ==
  /\ ManagerCalled("loadModel", Len(mmCalls) + 1)
  /\ IF ~validateSTLFile(file)
     THEN /\ mmCalls' = Append(mmCalls, Rejected(file, <<InvalidFileMessage>>))
          /\ UNCHANGED mmLoads
     ELSE IF file.name \in DOMAIN modelCache
     THEN /\ mmCalls' = Append(mmCalls, Fulfilled(file, modelCache[file.name]))
          /\ UNCHANGED mmLoads
     ELSE /\ mmCalls' = Append(mmCalls, Awaiting(file))
          /\ mmLoads' = Append(mmLoads, file.name)
  /\ UNCHANGED <<modelCache, mmMeshes, mmDisposed>>

\* The rest of the k-th loadModel call, run when its loadFromFile promise
\* has settled: cache the new mesh and return it, or throw.
LoadModelResumes(k) ==
  /\ k \in DOMAIN mmCalls
  /\ mmCalls[k].pc = "awaiting"
  /\ mmLast' = [op |-> "resume", arg |-> k]
  /\ \E loaded \in {loadFromFile(mmCalls[k].file)} :
       IF loaded.ok
       THEN \E mesh \in {Len(mmMeshes) + 1} :
              /\ mmMeshes' = Append(mmMeshes, mmCalls[k].file.name)
              /\ modelCache' = MapSet(modelCache, mmCalls[k].file.name, mesh)
              /\ mmCalls' = [mmCalls EXCEPT ![k] = Fulfilled(mmCalls[k].file, mesh)]
       ELSE /\ mmCalls' =
                 [mmCalls EXCEPT
                    ![k] = Rejected(mmCalls[k].file,
                                    <<ModelLoadFailedPrefix>> \o loaded.error)]
            /\ UNCHANGED <<modelCache, mmMeshes>>
  /\ UNCHANGED <<mmLoads, mmDisposed, mmOps>>

\* clearCache(): dispose every cached mesh, then clear.
ManagerClearCache ==
  /\ ManagerCalled("clearCache", 0)
  /\ mmDisposed' = mmDisposed \cup {modelCache[n] : n \in DOMAIN modelCache}
  /\ modelCache' = EmptyMap
  /\ UNCHANGED <<mmCalls, mmLoads, mmMeshes>>

\* disposeModel(mesh), for a mesh a loadModel call returned.
DisposeModel(mesh) ==
  /\ ManagerCalled("disposeModel", mesh)
  /\ modelCache' = removeFromCache(modelCache, mesh)
  /\ mmDisposed' = mmDisposed \cup {mesh}
  /\ UNCHANGED <<mmCalls, mmLoads, mmMeshes>>

NextManager ==
  \/ (\E file \in ManagerFiles : LoadModel(file)) /\ UNCHANGED outsideManager
  \/ (\E k \in DOMAIN mmCalls : LoadModelResumes(k)) /\ UNCHANGED outsideManager
  \/ ManagerClearCache /\ UNCHANGED outsideManager
  \/ (\E mesh \in DOMAIN mmMeshes : DisposeModel(mesh)) /\ UNCHANGED outsideManager

InitManagerSpec ==
  InitService /\ IdleTri /\ IdlePlane /\ InitViz /\ InitStore /\ IdleZoom
    /\ IdleValidate /\ IdleSelector /\ IdleManager /\ IdleLoad /\ IdleNotify

SpecManager == InitManagerSpec /\ [][NextManager]_vars

\* ---------------------------------- ModelIntegrationService, applied
\* Calls made on one service in a behaviour (loadModelFromFile,
\* handleFileSelectionError, resetModelState); the completion of a load is
\* not a call.
MaxLoadOps == 2

\* The files loaded: a good one, and files that are rejected, too short
\* and unreadable.
LoadFiles ==
  { StlFile(HeartStl, minBufferSize, "stl"),
    StlFile(LargeStl, 300 * MB, "stl"),
    StlFile(HeartStl, minBufferSize - 1, "stl"),
    StlFile(HeartStl, minBufferSize, "unreadable") }

\* The store as it is now, with no listener called yet.
StoreNow ==
  [state |-> state, history |-> history, applied |-> applied,
   notified |-> <<>>, threw |-> FALSE]

\* The store after the calls of a method.
StoreBecomes(store) ==
  /\ state' = store.state
  /\ history' = store.history
  /\ applied' = store.applied
  /\ stNotified' = store.notified
  /\ UNCHANGED <<listeners, subs, stCall, stRet, stOps>>

LoadCalled(op, arg) ==
  /\ ldOps < MaxLoadOps
  /\ ldOps' = ldOps + 1
  /\ ldLast' = [op |-> op, arg |-> arg]

\* loadModelFromFile(file) up to its await: startLoading() and the call of
\* loadFromFile.
LoadModelFromFile(file) ==
  /\ LoadCalled("loadModelFromFile", Len(ldCalls) + 1)
  /\ \E s \in {storeCall(StoreNow, listeners, startLoadingState)} :
       IF s.threw
       THEN \E c \in {loadCatch(s, listeners, <<TypeErrorMessage>>)} :
              /\ StoreBecomes(c.store)
              /\ ldCalls' = Append(ldCalls, Rejected(file, c.error))
       ELSE /\ StoreBecomes(s)
            /\ ldCalls' = Append(ldCalls, Awaiting(file))

\* The rest of the k-th loadModelFromFile call, run when its loadFromFile
\* promise has settled.
LoadModelFromFileResumes(k) ==
  /\ k \in DOMAIN ldCalls
  /\ ldCalls[k].pc = "awaiting"
  /\ ldLast' = [op |-> "resume", arg |-> k]
  /\ \E loaded \in {loadFromFile(ldCalls[k].file)} :
       \E c \in {IF loaded.ok THEN loadSucceeds(StoreNow, listeners, k)
                 ELSE loadCatch(StoreNow, listeners, loaded.error)} :
         /\ StoreBecomes(c.store)
         /\ ldCalls' =
              [ldCalls EXCEPT
                 ![k] = IF c.threw THEN Rejected(ldCalls[k].file, c.error)
                        ELSE Fulfilled(ldCalls[k].file, k)]
  /\ UNCHANGED ldOps

\* handleFileSelectionError(error)
HandleFileSelectionError(error) ==
  /\ LoadCalled("handleFileSelectionError", 0)
  /\ StoreBecomes(storeCall(StoreNow, listeners, errorState(error)))
  /\ UNCHANGED ldCalls

\* resetModelState()
ResetModelState ==
  /\ LoadCalled("resetModelState", 0)
  /\ StoreBecomes(storeCall(StoreNow, listeners, INITIAL_STATE))
  /\ UNCHANGED ldCalls

NextLoad ==
  \/ (\E file \in LoadFiles : LoadModelFromFile(file)) /\ UNCHANGED outsideLoad
  \/ (\E k \in DOMAIN ldCalls : LoadModelFromFileResumes(k)) /\ UNCHANGED outsideLoad
  \/ HandleFileSelectionError(<<"unsupported type">>) /\ UNCHANGED outsideLoad
  \/ ResetModelState /\ UNCHANGED outsideLoad

InitLoadSpec ==
  InitService /\ IdleTri /\ IdlePlane /\ InitViz /\ InitStore /\ IdleZoom
    /\ IdleValidate /\ IdleSelector /\ IdleManager /\ IdleLoad /\ IdleNotify

SpecLoad == InitLoadSpec /\ [][NextLoad]_vars

\* The FileReader of every call fires onload or onerror, so the promise a
\* call awaits settles and the call resumes.
SpecLoadFair ==
  /\ SpecLoad
  /\ \A k \in 1..MaxLoadOps :
       WF_vars(LoadModelFromFileResumes(k) /\ UNCHANGED outsideLoad)

\* ------------------------------- ModelStore with acting listeners
\* Calls made on one store (and its unsubscribe closures) in a behaviour.
MaxNotifyOps == 3

\* What the body of each listener does when it is called.
Reactions == [StoreListeners -> StoreListeners \cup {"none"}]

InitNotify == reaction \in Reactions

NotifyCalled(op, arg) ==
  /\ stOps < MaxNotifyOps
  /\ stOps' = stOps + 1
  /\ stCall' = [op |-> op, arg |-> arg]

\* subscribe(listener): push, call the listener with getState(), return the
\* closure.
NotifySubscribe(listener) ==
  /\ NotifyCalled("subscribe", listener)
  /\ \E pushed \in {[listeners |-> Append(listeners, listener), subs |-> subs,
                     notified |-> <<<<listener, state>>>>]} :
       \E called \in {callListener(pushed, reaction, listener)} :
         /\ listeners' = called.listeners
         /\ subs' = Append(called.subs, [listener |-> listener, ran |-> FALSE])
         /\ stNotified' = called.notified
         /\ stRet' = Returned(Len(subs) + 1)
  /\ UNCHANGED <<state, history, applied, reaction>>

\* A state-changing method (startLoading, setError, reset) and its
\* updateState(newState).
NotifyChange(op, newState) ==
  /\ NotifyCalled(op, Null)
  /\ state' = newState
  /\ history' = Append(history, newState)
  /\ applied' = Append(applied, newState)
  /\ \E notifying \in {notifyListeners([listeners |-> listeners, subs |-> subs,
                                        notified |-> <<>>], reaction, newState)} :
       /\ listeners' = notifying.listeners
       /\ subs' = notifying.subs
       /\ stNotified' = notifying.notified
  /\ stRet' = Returned(Null)
  /\ UNCHANGED reaction

\* The closure returned by the k-th subscribe call, called from outside.
NotifyUnsubscribe(k) ==
  /\ stOps < MaxNotifyOps
  /\ Unsubscribe(k)
  /\ UNCHANGED reaction

NextNotify ==
  \/ (\E listener \in StoreListeners : NotifySubscribe(listener))
       /\ UNCHANGED outsideNotify
  \/ NotifyChange("startLoading", startLoadingState) /\ UNCHANGED outsideNotify
  \/ NotifyChange("setError", errorState(ErrorMessage)) /\ UNCHANGED outsideNotify
  \/ NotifyChange("reset", INITIAL_STATE) /\ UNCHANGED outsideNotify
  \/ (\E k \in DOMAIN subs : NotifyUnsubscribe(k)) /\ UNCHANGED outsideNotify

InitNotifySpec ==
  InitService /\ IdleTri /\ IdlePlane /\ InitViz /\ InitStore /\ IdleZoom
    /\ IdleValidate /\ IdleSelector /\ IdleManager /\ IdleLoad /\ InitNotify

SpecNotify == InitNotifySpec /\ [][NextNotify]_vars

\* ------------------------------------------------------- properties
IsUpdate(c) == c.op = "updateSection"

\* A pose vector with no NaN and no infinite component.
FiniteVector(vector) == \A i \in 1..3 : vector[i].cls = "fin"

\* The arguments are a finite pose and a non-empty mesh: those that pass
\* the validation of updateSection.
PassesValidation(c) ==
  /\ FiniteVector(c.probePosition)
  /\ FiniteVector(c.probeDirection)
  /\ Len(c.triangles) > 0

KeyOf(c) ==
  generateCacheKey(Values(c.probePosition), Values(c.probeDirection), c.triangles)

PlaneOf(c) == fromPointAndNormal(Values(c.probePosition), Values(c.probeDirection))

\* A pose component rounded to 4 decimals, as a number of toFixed steps.
RoundedLength(x) == Sgn(x) * toFixedLength(x)[2]

RoundedDirection(k) == Sgn(k) * toFixedDirection(k)[2]

SameRoundedPose(c1, c2) ==
  /\ \A i \in 1..3 :
       RoundedLength(c1.probePosition[i].v) = RoundedLength(c2.probePosition[i].v)
  /\ \A i \in 1..3 :
       RoundedDirection(c1.probeDirection[i].v)
         = RoundedDirection(c2.probeDirection[i].v)

\* Two updateSection calls in succession, both passing validation, on the
\* same mesh.
RepeatedOnSameMesh ==
  /\ IsUpdate(call) /\ IsUpdate(call')
  /\ PassesValidation(call) /\ PassesValidation(call')
  /\ call.triangles = call'.triangles

SecondFromCache ==
  /\ ret'.fromCache
  /\ ret'.calculationTime = 0
  /\ ret'.calculationTime <= ret.calculationTime

\* C1 as stated: two successive updateSection calls with a finite pose, the
\* same mesh and pose components equal after rounding to 4 decimals: the
\* second call returns fromCache:true and calculationTime 0, not above the
\* first call's.
C1_RepeatIsCacheHit ==
  [][(RepeatedOnSameMesh /\ SameRoundedPose(call, call')) => SecondFromCache]_vars

\* C1 amended: the same, when the first call returned a valid result and
\* the two poses have the same toFixed(4) texts (the same cache key).
C1_RepeatOfValidIsCacheHit ==
  [][(RepeatedOnSameMesh /\ KeyOf(call) = KeyOf(call') /\ ret.isValid)
       => SecondFromCache]_vars

\* A miss that took time, stored its lines, and a hit for a pose one tick
\* away on the same three-triangle mesh.
C1_Witness ==
  /\ IsUpdate(call) /\ nOps = 2
  /\ ret.fromCache /\ cacheHits = 1 /\ cacheMisses = 1
  /\ call.probePosition = Vec(0, 0, 1)
  /\ Len(call.triangles) = 3
  /\ lastResult # Null /\ lastResult[1].calculationTime = MaxTime

\* The lines updateSection computes on a miss that did not throw.
ComputedMiss == IsUpdate(call) /\ PassesValidation(call)
                  /\ ~ret.fromCache /\ ret.error = ""

\* C2: on a cache miss the lines hold one segment for exactly the triangles
\* for which planeTriangleIntersection (default tolerance) returns 2 points.
C2_SegmentsWherePTIHasTwoPoints ==
  ComputedMiss =>
    LET plane == PlaneOf(call)
        n == Len(call.triangles)
        want == {i \in 1..n :
                   Len(planeTriangleIntersection(plane, call.triangles[i],
                                                 DefaultTolerance)) = 2}
        got == {i \in 1..n :
                  calculateTriangleIntersection(plane, call.triangles[i]) # Null}
    IN  got = want /\ Len(ret.lines) = Cardinality(want)

\* What a fresh service (empty cache, no last result) computes for a call.
FreshLines(probePosition, probeDirection, triangles) ==
  calculateIntersectionLines(
    fromPointAndNormal(Values(probePosition), Values(probeDirection)),
    triangles, Null)

\* C3: whenever updateSection returns from the cache, the lines are those a
\* fresh service computes for the arguments of that very call.
C3_HitEqualsFreshComputation ==
  (IsUpdate(call) /\ ret.fromCache) =>
    ret.lines = FreshLines(call.probePosition, call.probeDirection, call.triangles)

\* The state part and the step part of C4.
C4_EntriesValid ==
  /\ \A k \in DOMAIN cache : cache[k].isValid /\ Len(cache[k].lines) >= 1
  /\ (ComputedMiss /\ ~ret.isValid) => KeyOf(call) \notin DOMAIN cache

C4_RetryRecomputes ==
  (ComputedMiss /\ ~ret.isValid /\ IsUpdate(call')
     /\ call'.probePosition = call.probePosition
     /\ call'.probeDirection = call.probeDirection
     /\ call'.triangles = call.triangles)
    => /\ ~ret'.fromCache
       /\ cacheMisses' = cacheMisses + 1
       /\ totalCalculations' = totalCalculations + 1
       /\ cacheHits' = cacheHits

\* C4: every cache entry is valid with at least one line, and a call that
\* computed an invalid result stored nothing: repeated at once with the same
\* arguments, it is a miss again and recomputes.
C4_OnlyValidResultsCached == []C4_EntriesValid /\ [][C4_RetryRecomputes]_vars

\* Two computations in a row that ended invalid, nothing stored.
C4_Witness ==
  /\ ComputedMiss /\ ~ret.isValid
  /\ cacheMisses = 2 /\ totalCalculations = 2 /\ cache = <<>>

\* C5: once setCacheSizeLimit(n) was called, the cache never holds more
\* than n entries.
C5_CacheWithinLimit ==
  sizeLimit # Null => Cardinality(DOMAIN cache) <= sizeLimit[1]

\* A step of updateSection whose arguments fail validation.
C6_RejectedCall ==
  (IsUpdate(call') /\ ~PassesValidation(call'))
    => /\ ret'.isValid = FALSE
       /\ ret'.lines = <<>>
       /\ ret'.error # ""
       /\ UNCHANGED <<cache, cacheHits, cacheMisses, totalCalculations, lastResult>>

\* C6: a NaN or infinite pose component, or an empty triangle list: the
\* result is invalid with no lines and an error, and the cache, the three
\* counters and lastResult are as before the call.
C6_InvalidInputLeavesStateAlone == [][C6_RejectedCall]_vars

\* A call with a NaN position on a service that holds a cached result.
C6_Witness ==
  /\ IsUpdate(call) /\ isNaN(call.probePosition[1])
  /\ ret.error = InvalidPoseMessage
  /\ cache # <<>> /\ cacheMisses = 1 /\ lastResult # Null

\* C7: every result of updateSection has isValid = (lines.length > 0).
C7_ValidIffLines ==
  IsUpdate(call) => (ret.isValid <=> Len(ret.lines) > 0)

\* A hit that returns two segments.
C7_Witness ==
  /\ IsUpdate(call) /\ ret.fromCache /\ ret.isValid /\ Len(ret.lines) = 2

\* A step of updateSection that returns from the cache.
C8_Hit ==
  (IsUpdate(call') /\ ret'.fromCache)
    => /\ cacheHits' = cacheHits + 1
       /\ UNCHANGED <<cache, cacheMisses, totalCalculations, lastResult>>
       /\ KeyOf(call') \in DOMAIN cache
       /\ ret'.lines = cache[KeyOf(call')].lines
       /\ ret'.isValid = cache[KeyOf(call')].isValid
       /\ ret'.calculationTime = 0

\* C8: a cache hit increments cacheHits only, leaves the cache, cacheMisses,
\* totalCalculations and lastResult alone, and returns the stored lines with
\* fromCache:true and calculationTime 0.
C8_HitRepeatsNoWork == [][C8_Hit]_vars

\* A hit on an entry whose computation took time.
C8_Witness ==
  /\ IsUpdate(call) /\ ret.fromCache /\ ret.calculationTime = 0
  /\ cacheHits = 1
  /\ \E k \in DOMAIN cache : cache[k].calculationTime = MaxTime

\* The bag (multiset) of the elements of a sequence.
BagOfSeq(seq) ==
  [x \in {seq[i] : i \in DOMAIN seq} |->
     Cardinality({i \in DOMAIN seq : seq[i] = x})]

\* Every reordering of a triangle list.
Reorderings(triangles) ==
  {[i \in 1..Len(triangles) |-> triangles[p[i]]] :
     p \in Permutations(1..Len(triangles))}

\* C9: what updateSection computes is, as a multiset of segments and in
\* isValid, what a fresh service computes for every reordering of the mesh,
\* whatever the previous result was.
C9_OrderIndependent ==
  ComputedMiss =>
    \A reordered \in Reorderings(call.triangles) :
      LET lines == FreshLines(call.probePosition, call.probeDirection, reordered)
      IN  /\ BagOfSeq(lines) = BagOfSeq(ret.lines)
          /\ IsValidLines(lines) = ret.isValid

\* A second computation in a row, on the three-triangle mesh, with two
\* segments.
C9_Witness ==
  /\ ComputedMiss /\ Len(call.triangles) = 3 /\ Len(ret.lines) = 2
  /\ nOps = 2 /\ totalCalculations = 2

\* The distances of the triangle planeTriangleIntersection was applied to.
TriDistances == Distances(tiPlane, tiTriangle)

NoVertexOnPlane == \A i \in 1..3 : Abs(TriDistances[i]) >= tiTolerance

SameSide ==
  \/ \A i \in 1..3 : TriDistances[i] > 0
  \/ \A i \in 1..3 : TriDistances[i] < 0

OnPlaneSet == {i \in 1..3 : Abs(TriDistances[i]) < tiTolerance}

\* The two vertices off the plane lie on strictly opposite sides.
OthersOpposite ==
  \E i, j \in (1..3) \ OnPlaneSet :
    TriDistances[i] > 0 /\ TriDistances[j] < 0

\* C11: with exactly one vertex on-plane (default tolerance), the result is
\* that vertex plus one crossing point when the other two vertices are on
\* opposite sides, and that vertex alone when they are on the same side,
\* whatever the sign of the on-plane vertex's distance inside the band.
C11_VertexPlusAtMostOneCrossing ==
  (tiDone /\ tiTolerance = DefaultTolerance /\ Cardinality(OnPlaneSet) = 1) =>
    LET on == CHOOSE i \in OnPlaneSet : TRUE
    IN  /\ Len(tiPoints) = (IF OthersOpposite THEN 2 ELSE 1)
        /\ tiPoints[1] = clone(tiTriangle[on])

\* C12 as stated: for every tolerance, when intersectsPlane returns false,
\* planeTriangleIntersection returns no point.
C12_CulledMeansNoPoints ==
  (tiDone /\ tiCull = <<FALSE>>) => tiPoints = <<>>

\* C12 amended: the same, for every tolerance that is not negative.
C12_CulledMeansNoPointsNonNegative ==
  (tiDone /\ tiCull = <<FALSE>> /\ tiTolerance >= 0) => tiPoints = <<>>

\* A triangle strictly above the band, culled, with no point returned.
C12_Witness ==
  /\ tiDone /\ tiCull = <<FALSE>> /\ tiTolerance = DefaultTolerance
  /\ tiPoints = <<>>
  /\ \A i \in 1..3 : TriDistances[i] > tiTolerance

\* Three points of the plane z = 0 on one line (or coincident).
Collinear(p1, p2, p3) ==
  (p2[1] - p1[1]) * (p3[2] - p1[2]) = (p2[2] - p1[2]) * (p3[1] - p1[1])

\* The call hands over a zero normal, or points that span no plane.
ZeroNormalInput ==
  \/ plCall.op \in {"new", "fromPointAndNormal"} /\ plCall.normal = <<0, 0, 0>>
  \/ plCall.op = "fromPoints"
       /\ Collinear(plCall.points[1], plCall.points[2], plCall.points[3])

\* C13: new Plane and fromPointAndNormal with a zero normal, and fromPoints
\* with collinear or coincident points, throw the zero-normal error; a
\* plane that is returned has a normal of length 1.
C13_NoZeroNormalPlane ==
  plResult # Null =>
    /\ ZeroNormalInput => plResult[1].threw
    /\ ~plResult[1].threw => length(plResult[1].normal) = 1

\* fromPoints was given three distinct points of one line and threw.
C13_Witness ==
  /\ plResult # Null /\ plResult[1].threw
  /\ plCall.op = "fromPoints"
  /\ Cardinality({plCall.points[1], plCall.points[2], plCall.points[3]}) = 3

\* getVisualizationConfig has returned.
GotConfig == vzCall.op = "getVisualizationConfig" /\ vzRet # Null

\* A number within [lo, hi].
Within(n, lo, hi) == n.cls = "fin" /\ lo <= n.v /\ n.v <= hi

\* C14: every config returned by getVisualizationConfig has lineWidth >= 0,
\* opacity within [0,1] and a '#' + 6-hex-digit colour, whatever the lines,
\* the options and the earlier setDefaultConfig calls.
C14_ConfigAlwaysValid ==
  GotConfig =>
    /\ vzRet[1].lineWidth.cls = "fin" /\ vzRet[1].lineWidth.v >= 0
    /\ Within(vzRet[1].opacity, 0, FullOpacity)
    /\ Len(vzRet[1].color) = 7 /\ vzRet[1].color[1] = "#"
    /\ \A i \in 2..7 : vzRet[1].color[i] \in HexDigits

\* An entry that is an array of exactly 2 Vector3 points.
WellFormed(entry) ==
  entry.isArray /\ entry.items = <<"Vector3", "Vector3">>

HasWellFormed ==
  /\ ~vzCall.lines.isNull
  /\ \E i \in 1..Len(vzCall.lines.entries) : WellFormed(vzCall.lines.entries[i])

EmptyLines == vzCall.lines.isNull \/ vzCall.lines.entries = <<>>

\* C15: visible is true exactly when lines has a well-formed entry; without
\* one the config is the default config with visible false (and lineWidth 0
\* for the empty list), whatever the options.
C15_VisibleIffWellFormed ==
  GotConfig =>
    /\ vzRet[1].visible <=> HasWellFormed
    /\ EmptyLines =>
         vzRet[1] = [defaultConfig EXCEPT !.visible = FALSE, !.lineWidth = Fin(0)]
    /\ (~EmptyLines /\ ~HasWellFormed) =>
         vzRet[1] = [defaultConfig EXCEPT !.visible = FALSE]

\* Only malformed entries, of the right length but the wrong type, with
\* options that ask for a highlight: not visible, options ignored.
C15_Witness ==
  /\ GotConfig /\ ~EmptyLines /\ ~HasWellFormed
  /\ \E i \in 1..Len(vzCall.lines.entries) : Len(vzCall.lines.entries[i].items) = 2
  /\ vzCall.options.highlight = <<TRUE>>
  /\ ~vzRet[1].visible /\ ~vzRet[1].highlight

\* The line width before highlighting: the option clamped to >= 0, or the
\* default when the option is absent.
ClampedLineWidth ==
  IF vzCall.options.lineWidth = Undefined THEN defaultConfig.lineWidth
  ELSE MathMax(Fin(0), vzCall.options.lineWidth[1])

ValidHighlightColor ==
  /\ vzCall.options.highlightColor # Undefined
  /\ Len(vzCall.options.highlightColor[1]) = 7
  /\ vzCall.options.highlightColor[1][1] = "#"
  /\ \A i \in 2..7 : vzCall.options.highlightColor[1][i] \in HexDigits

\* C16: with a valid segment and options.highlight true the config has
\* highlight true, lineWidth max(clamped lineWidth, 3) and the colour
\* options.highlightColor when that is valid, '#ffff00' otherwise;
\* options.color never decides.
C16_HighlightedConfig ==
  (GotConfig /\ HasWellFormed /\ vzCall.options.highlight = <<TRUE>>) =>
    /\ vzRet[1].highlight
    /\ vzRet[1].lineWidth = MathMax(ClampedLineWidth, Fin(HighlightLineWidth))
    /\ vzRet[1].color = IF ValidHighlightColor
                        THEN vzCall.options.highlightColor[1]
                        ELSE DefaultHighlightColor

\* A highlighted config whose options give a valid color but an invalid
\* highlightColor: the colour is the default highlight colour.
C16_Witness ==
  /\ GotConfig /\ HasWellFormed /\ vzCall.options.highlight = <<TRUE>>
  /\ vzCall.options.color = <<Red>>
  /\ vzCall.options.highlightColor = <<ShortHex>>
  /\ vzRet[1].color = DefaultHighlightColor
  /\ vzRet[1].highlight

\* The operations that change the state; a deserialize counts when its
\* text parsed and its state could be snapshot.
StateChanged ==
  \/ stCall.op \in {"startLoading", "setSuccess", "setError", "updateProgress",
                    "reset"}
  \/ /\ stCall.op = "deserialize"
     /\ stCall.arg \in ValidTexts
     /\ applied # <<>> /\ history[Len(history)] = applied[Len(applied)]

\* The subscriptions of a listener whose unsubscribe closure has not run.
LiveSubscriptions(l) ==
  {k \in 1..Len(subs) : subs[k].listener = l /\ ~subs[k].ran}

\* The calls the last operation made to a listener.
CallsTo(l) == {i \in 1..Len(stNotified) : stNotified[i][1] = l}

\* C17: subscribe calls the listener once, at once, with the current state;
\* each state-changing operation calls every listener once per subscription
\* whose unsubscribe has not run, with the new state, and calls no other
\* listener; nothing else calls a listener.
C17_ListenersNotified ==
  /\ stCall.op = "subscribe" => stNotified = <<<<stCall.arg, state>>>>
  /\ StateChanged =>
       /\ \A l \in StoreListeners :
            Cardinality(CallsTo(l)) = Cardinality(LiveSubscriptions(l))
       /\ \A i \in 1..Len(stNotified) : stNotified[i][2] = state
  /\ (stCall.op # "subscribe" /\ ~StateChanged) => stNotified = <<>>

\* C18: the history is the initial state followed by the states assigned by
\* the operations, in order, and its last element is what getState returns.
C18_HistoryTracksState ==
  /\ history = <<INITIAL_STATE>> \o applied
  /\ ~getStateSnapshot(state).threw
  /\ history[Len(history)] = getStateSnapshot(state).value

\* C19: the progress of the state is a number within [0,100].
C19_ProgressInRange ==
  /\ state.progress.cls = "fin"
  /\ 0 <= state.progress.v /\ state.progress.v <= FullProgress

\* C20: deserialize of a text that is not JSON does not throw and changes
\* neither the state nor the history nor the listeners, and calls no
\* listener.
C20_InvalidJsonLeavesStore ==
  [][ (stOps' = stOps + 1 /\ stCall'.op = "deserialize"
         /\ stCall'.arg \in InvalidTexts) =>
        /\ ~stRet'.threw
        /\ state' = state
        /\ history' = history
        /\ listeners' = listeners
        /\ applied' = applied
        /\ stNotified' = <<>> ]_vars

\* A store with a subscriber and a history of more than the initial state
\* was handed a text that is not JSON.
C20_Witness ==
  /\ stCall.op = "deserialize" /\ stCall.arg \in InvalidTexts
  /\ listeners # <<>>
  /\ Len(history) > 1
  /\ state # INITIAL_STATE

\* ---------------------------------------------------------------- C21
\* The step starts the k-th loadModelFromFile call.
StartsFileLoad(k) ==
  /\ ldLast' = [op |-> "loadModelFromFile", arg |-> k]
  /\ Len(ldCalls) = k - 1
  /\ Len(ldCalls') = k

\* The step completes the k-th loadModelFromFile call.
CompletesFileLoad(k) ==
  /\ k \in DOMAIN ldCalls
  /\ ldCalls[k].pc = "awaiting"
  /\ ldCalls'[k].pc = "done"

LoadingState ==
  [isLoading |-> TRUE, currentModel |-> Null, error |-> Null, progress |-> Fin(0)]

\* The success state holding the model converted from the mesh of call k.
SuccessStateOf(k) ==
  [isLoading |-> FALSE, currentModel |-> <<[iterable |-> TRUE, mesh |-> k]>>,
   error |-> Null, progress |-> Fin(100)]

\* The error state with the message '文件加载失败: ' followed by the message of
\* the error.
ErrorStateOf(error) ==
  [isLoading |-> FALSE, currentModel |-> Null,
   error |-> <<<<FileLoadFailedPrefix>> \o error>>, progress |-> Fin(0)]

\* C21: a loadModelFromFile call first puts the store into the loading state
\* (isLoading true, progress 0) and awaits the loader; when it resumes after
\* a successful load it sets progress 100 and then the success state holding
\* the converted model, and returns; after a failed load it sets the error
\* state with the prefixed message and rethrows the loader's error; either
\* way the store has isLoading false when the call completes, and every
\* call that was started completes.
C21_LoadSequence ==
  /\ [][\A k \in DOMAIN ldCalls' :
          /\ StartsFileLoad(k) =>
               /\ applied' = Append(applied, LoadingState)
               /\ state' = LoadingState
               /\ ldCalls'[k].pc = "awaiting"
          /\ CompletesFileLoad(k) /\ ~ldCalls'[k].threw =>
               /\ applied' = applied \o <<[state EXCEPT !.progress = Fin(100)],
                                          SuccessStateOf(k)>>
               /\ state' = SuccessStateOf(k)
               /\ ldCalls'[k].mesh = k
          /\ CompletesFileLoad(k) /\ ldCalls'[k].threw =>
               /\ ldCalls'[k].error = loadFromFile(ldCalls[k].file).error
               /\ applied' = Append(applied, ErrorStateOf(ldCalls'[k].error))
               /\ state' = ErrorStateOf(ldCalls'[k].error)
          /\ CompletesFileLoad(k) => ~state'.isLoading]_vars
  /\ \A k \in 1..MaxLoadOps :
       (k \in DOMAIN ldCalls /\ ldCalls[k].pc = "awaiting")
         ~> (k \in DOMAIN ldCalls /\ ldCalls[k].pc = "done")

\* A single call has completed with a model in the store, and a single call
\* has completed with an error: here the former.
C21_Witness ==
  /\ Len(ldCalls) = 1
  /\ ldOps = 1
  /\ ldCalls[1].pc = "done"
  /\ ~ldCalls[1].threw
  /\ applied = <<LoadingState, [LoadingState EXCEPT !.progress = Fin(100)],
                 SuccessStateOf(1)>>
  /\ state = SuccessStateOf(1)

\* ---------------------------------------------------------------- C27
\* How often the listener was called with the state in the step.
TimesNotified(calls, listener, newState) ==
  Cardinality({i \in DOMAIN calls : calls[i] = <<listener, newState>>})

Occurrences(array, listener) ==
  Cardinality({i \in DOMAIN array : array[i] = listener})

\* C27: when the state changes, every listener that was subscribed once
\* before the change and is still subscribed after it has been called with
\* the new state exactly once, whatever the listeners called unsubscribed
\* while they were notified.
C27_RemainingListenersNotified ==
  [][stOps' = stOps + 1 /\ stCall'.op \in {"startLoading", "setError", "reset"} =>
       \A listener \in StoreListeners :
         ( /\ Occurrences(listeners, listener) = 1
           /\ Occurrences(listeners', listener) = 1 )
           => TimesNotified(stNotified', listener, state') = 1]_vars

\* ---------------------------------------------------------------- C28
\* Only loadModelFromFile calls were made on the service.
OnlyLoads == ldOps = Len(ldCalls)

\* C28: with overlapping loadModelFromFile calls on one store, the store has
\* isLoading true as long as a call is in flight, and once all calls have
\* finished it shows the outcome of the call that was started last.
C28_LastStartedWins ==
  OnlyLoads /\ Len(ldCalls) > 0 =>
    /\ (\E k \in DOMAIN ldCalls : ldCalls[k].pc = "awaiting") => state.isLoading
    /\ (\A k \in DOMAIN ldCalls : ldCalls[k].pc = "done") =>
         LET last == ldCalls[Len(ldCalls)]
         IN  state = IF last.threw THEN ErrorStateOf(last.error)
                     ELSE SuccessStateOf(Len(ldCalls))

\* ---------------------------------------------------------------- C22
\* The extension of the file is the accepted one (letter case aside), or
\* no extension is asked for.
AcceptedExtension(file) ==
  \/ accept = <<>>
  \/ LET n == Len(accept)
     IN  /\ Len(file.name) >= n
         /\ \A i \in 1..n :
              toLowerCase(<<file.name[Len(file.name) - n + i]>>)
                = toLowerCase(<<accept[i]>>)

\* The step handles the choice of a file.
Chooses(file) ==
  /\ fsOps' = fsOps + 1
  /\ fsCall' = [op |-> "handleFileChange", file |-> <<file>>]

Answers(op) ==
  /\ fsOps' = fsOps + 1
  /\ fsCall'.op = op

\* C22: choosing a file with an accepted extension and a size above 150 MB
\* and at most 250 MB calls neither onFileSelect nor onError and opens the
\* dialog with that file pending; confirming then calls onFileSelect exactly
\* once, with the pending file, and cancelling never calls it; after either
\* answer the dialog is closed and no file is pending; a file above 250 MB
\* or with a wrong extension calls onError once and never onFileSelect.
C22_LargeFileNeedsConfirmation ==
  [][\A file \in SelectorFiles :
       /\ ( /\ Chooses(file)
            /\ AcceptedExtension(file)
            /\ file.size > 150 * MB
            /\ file.size <= 250 * MB )
          => /\ fsSelected' = fsSelected
             /\ fsErrors' = fsErrors
             /\ showConfirmation'
             /\ pendingFile' = <<file>>
       /\ ( /\ Answers("handleConfirmation")
            /\ pendingFile = <<file>> )
          => /\ fsSelected' = Append(fsSelected, file)
             /\ ~showConfirmation'
             /\ pendingFile' = Null
       /\ Answers("handleCancel")
          => /\ fsSelected' = fsSelected
             /\ ~showConfirmation'
             /\ pendingFile' = Null
       /\ ( /\ Chooses(file)
            /\ \/ file.size > 250 * MB
               \/ ~AcceptedExtension(file) )
          => /\ fsSelected' = fsSelected
             /\ Len(fsErrors') = Len(fsErrors) + 1
             /\ showConfirmation' = showConfirmation
             /\ pendingFile' = pendingFile]_vars

\* A large .stl file was chosen and the dialog confirmed: the file was
\* passed to onFileSelect, once.
C22_Witness ==
  /\ fsCall.op = "handleConfirmation"
  /\ Len(fsSelected) = 1
  /\ fsSelected[1].size > 150 * MB
  /\ ~showConfirmation
  /\ pendingFile = Null

\* ---------------------------------------------------------------- C23
\* The step starts the k-th loadModel call.
StartsLoad(k) ==
  /\ mmLast' = [op |-> "loadModel", arg |-> k]
  /\ Len(mmCalls') = k
  /\ Len(mmCalls) = k - 1

\* The step completes the k-th loadModel call.
CompletesLoad(k) ==
  /\ mmCalls'[k].pc = "done"
  /\ k \in DOMAIN mmCalls => mmCalls[k].pc = "awaiting"

\* What C23 says of completions and of clearCache.
CompletionsAndClear ==
  /\ \A k \in DOMAIN mmCalls' :
       CompletesLoad(k) =>
         LET c == mmCalls'[k]
         IN  /\ ~c.threw =>
                  /\ c.file.name \in DOMAIN modelCache'
                  /\ modelCache'[c.file.name] = c.mesh
             /\ c.threw => modelCache' = modelCache
  /\ mmLast'.op = "clearCache" /\ mmOps' = mmOps + 1 => modelCache' = EmptyMap

\* The k-th call is answered from the cache, without the loader.
AnsweredFromCache(k) ==
  LET c == mmCalls'[k]
  IN  /\ c.pc = "done"
      /\ ~c.threw
      /\ c.mesh = modelCache[c.file.name]
      /\ mmLoads' = mmLoads
      /\ modelCache' = modelCache

\* C23: when a loadModel call succeeds the cache maps file.name to the mesh
\* it returns; a loadModel call for a name that is in the cache returns the
\* cached mesh without calling loadFromFile; a call that is rejected by
\* validation or fails in the loader leaves the cache unchanged; clearCache
\* leaves the cache empty.
C23_CacheByName ==
  [][/\ CompletionsAndClear
     /\ \A k \in DOMAIN mmCalls' :
          StartsLoad(k) /\ mmCalls'[k].file.name \in DOMAIN modelCache
            => AnsweredFromCache(k)]_vars

\* C23, amended: as C23, for a later call whose file passes validation.
C23_CacheByNameWhenValid ==
  [][/\ CompletionsAndClear
     /\ \A k \in DOMAIN mmCalls' :
          ( /\ StartsLoad(k)
            /\ mmCalls'[k].file.name \in DOMAIN modelCache
            /\ validateSTLFile(mmCalls'[k].file) )
            => AnsweredFromCache(k)]_vars

\* The second loadModel call, for the name the first one loaded, has been
\* answered with the first call's mesh, and the loader was called once.
C23_Witness ==
  /\ Len(mmCalls) = 2
  /\ mmLast = [op |-> "loadModel", arg |-> 2]
  /\ mmCalls[1].pc = "done" /\ ~mmCalls[1].threw
  /\ mmCalls[2].pc = "done" /\ ~mmCalls[2].threw
  /\ mmCalls[2].mesh = mmCalls[1].mesh
  /\ Len(mmLoads) = 1

\* ---------------------------------------------------------------- C29
InCache(mesh) == \E name \in DOMAIN modelCache : modelCache[name] = mesh

\* C29: in every interleaving of loadModel calls with the same file name,
\* every mesh returned to a caller is the one cached under that name, until
\* it is disposed, and every mesh the loader built is in the cache (where
\* clearCache disposes it) or has been disposed.
C29_ReturnedMeshIsCached ==
  /\ \A k \in DOMAIN mmCalls :
       mmCalls[k].pc = "done" /\ ~mmCalls[k].threw =>
         \/ mmCalls[k].mesh \in mmDisposed
         \/ /\ mmCalls[k].file.name \in DOMAIN modelCache
            /\ modelCache[mmCalls[k].file.name] = mmCalls[k].mesh
  /\ \A mesh \in DOMAIN mmMeshes : mesh \in mmDisposed \/ InCache(mesh)

\* ---------------------------------------------------------------- C24
\* The file has the .stl extension, in any case of letters.
HasStlExtension(file) == endsWith(toLowerCase(file.name), DotStl)

\* C24: validateSTLFile returns false for an .stl file of 101 MB, and for
\* every file larger than the size limit.
C24_OversizedRejected ==
  vfResult # Null =>
    /\ HasStlExtension(vfFile) /\ vfFile.size = 101 * MB => vfResult[1] = FALSE
    /\ vfFile.size > 250 * MB => vfResult[1] = FALSE

\* ---------------------------------------------------------------- C25
ZeroVector(vector) == \A i \in 1..3 : vector[i] = Fin(0)

\* The step is an updateSection call with a finite position, the zero
\* direction and a non-empty mesh.
ZeroDirectionCall ==
  /\ IsUpdate(call')
  /\ nOps' = nOps + 1
  /\ FiniteVector(call'.probePosition)
  /\ ZeroVector(call'.probeDirection)
  /\ Len(call'.triangles) > 0

\* C25: an updateSection call with a finite probe position, a zero-length
\* probeDirection and a non-empty mesh returns isValid false, no lines and
\* an error, stores nothing in the cache, leaves lastResult and
\* totalCalculations unchanged and increments cacheMisses.
C25_ZeroDirectionIsCaught ==
  [][ZeroDirectionCall =>
       /\ ~ret'.isValid
       /\ ret'.lines = <<>>
       /\ ret'.error # ""
       /\ cache' = cache
       /\ lastResult' = lastResult
       /\ totalCalculations' = totalCalculations
       /\ cacheMisses' = cacheMisses + 1]_vars

\* ---------------------------------------------------------------- C26
\* The step is a clearCache, or a setCacheSizeLimit that clears.
Clears ==
  /\ nOps' = nOps + 1
  /\ \/ call'.op = "clearCache"
     \/ call'.op = "setCacheSizeLimit" /\ Cardinality(DOMAIN cache) > call'.limit

\* The step is an updateSection call that passes pose and mesh validation.
ValidatedCall ==
  /\ nOps' = nOps + 1
  /\ IsUpdate(call')
  /\ PassesValidation(call')

C30_ZoomWithinRange ==
  LessEq(zmState.min, zmState.max) =>
    LessEq(zmState.min, zmState.value) /\ LessEq(zmState.value, zmState.max)

=============================================================================
